---- MODULE Spec2Model ----
(***************************************************************************)
(* Model of the flock tweet loader (Go, dgo/v2 upsert variant):            *)
(* buildQuery, filterTweet and the runInserter worker loop, running        *)
(* against a Dgraph backend whose user_id and id_str predicates carry      *)
(* the @upsert directive.                                                  *)
(***************************************************************************)
EXTENDS Integers, Sequences, FiniteSets, TLC

\* ------------------------------------------------------------------------
\* Bounds
\* ------------------------------------------------------------------------
NumWorkers == 2        \* opts.numClients
MaxStream == 2         \* number of messages delivered on the tweet channel
MaxMentions == 3       \* longest mention list given to buildQuery
MaxTags == 2           \* longest hashtag list of a post given to filterTweet
MaxUrls == 2           \* longest URL entity list of a post given to filterTweet
NumWriters == 2        \* download mode: opts.numWriters
MaxStartFid == 2       \* download mode: largest file id in the directory at startup
MaxRounds == 3         \* restarting loader: rounds of the loop in main looked at
NumQueries == 3        \* query client: goroutines started from allQueries
NumQueryAtATime == 2   \* query client: opts.NumQueryAtATime
ActualQueries == 2     \* query client: actual queries run per parameter query
MaxQueryCalls == 4     \* query client: calls of getParams and runQuery looked at
MaxJsRecords == 2      \* JS loader: tweets handed to addTweetData
MaxJsAttempts == 3     \* JS loader: doRequest calls looked at per tweet

Workers == 1..NumWorkers

UserIds == {"U1", "U2", "U3"}
PostIds == {"P1", "P2"}

\* ------------------------------------------------------------------------
\* Messages on the tweet channel (anaconda.Tweet or something else)
\* ------------------------------------------------------------------------
Tw(id, author, fc, mentions) ==
    [kind |-> "tweet", IdStr |-> id, CreatedOk |-> TRUE, UserId |-> author,
     FollowersCount |-> fc, Mentions |-> mentions, Hashtags |-> <<>>, Urls |-> <<>>]

TweetA == Tw("P1", "U1", 1, <<"U2">>)
TweetB == Tw("P2", "U2", 1, <<"U1">>)
\* the author of TweetA again, with a changed profile
TweetC == Tw("P2", "U1", 2, <<>>)
BadTime == [Tw("P2", "U2", 1, <<>>) EXCEPT !.CreatedOk = FALSE]
NotATweet == [Tw("", "", 0, <<>>) EXCEPT !.kind = "other"]

Pool == {TweetA, TweetB, TweetC, BadTime, NotATweet}

SeqsUpTo(S, n) == UNION {[1..k -> S] : k \in 0..n}
StreamsOf(P) == SeqsUpTo(P, MaxStream) \ {<<>>}
Streams == StreamsOf(Pool)

\* ------------------------------------------------------------------------
\* filterTweet: the canonical record, or an error
\* ------------------------------------------------------------------------
NoTweet ==
    [IDStr |-> "", UID |-> "", Author |-> [UserID |-> "", UID |-> "", FollowersCount |-> 0],
     Mention |-> <<>>, URLs |-> <<>>, HashTags |-> <<>>]

\* make([]string, n): n zero values
MakeStrings(n) == [i \in 1..n |-> ""]

\* expandedURLs: the slice is made with length len(Urls), then appended to
expandedURLs(urls) ==
    MakeStrings(Len(urls)) \o [i \in 1..Len(urls) |-> urls[i].Expanded_url]

NonEmpty(text) == text # ""

\* hashTagTexts: the Text of every hashtag entity whose Text is not empty
hashTagTexts(tags) == SelectSeq([i \in 1..Len(tags) |-> tags[i].Text], NonEmpty)

\* the twitterTweet that filterTweet returns
twitterTweet(jsn) ==
    [IDStr |-> jsn.IdStr, UID |-> "",
     Author |-> [UserID |-> jsn.UserId, UID |-> "",
                 FollowersCount |-> jsn.FollowersCount],
     Mention |-> [i \in 1..Len(jsn.Mentions) |->
                    [UserID |-> jsn.Mentions[i], UID |-> ""]],
     URLs |-> expandedURLs(jsn.Urls),
     HashTags |-> hashTagTexts(jsn.Hashtags)]

\* a filter that takes CreatedAt as it is
filterTweetAnyTime(jsn) ==
    IF jsn.kind # "tweet" THEN [err |-> "errNotATweet", ft |-> NoTweet]
    ELSE [err |-> "nil", ft |-> twitterTweet(jsn)]

\* a filter without the type switch
filterTweetAnyType(jsn) ==
    IF ~jsn.CreatedOk THEN [err |-> "parse", ft |-> NoTweet]
    ELSE [err |-> "nil", ft |-> twitterTweet(jsn)]

filterTweet(jsn) ==
    IF jsn.kind # "tweet" THEN [err |-> "errNotATweet", ft |-> NoTweet]
    ELSE IF ~jsn.CreatedOk THEN [err |-> "parse", ft |-> NoTweet]
    ELSE [err |-> "nil", ft |-> twitterTweet(jsn)]

\* ------------------------------------------------------------------------
\* buildQuery
\* ------------------------------------------------------------------------
\* One sub-query "v as var(func: eq(p, x))". The mention sub-queries leave
\* the quotes around x out; eq matches the same nodes either way.
NoQuery == [var |-> "", pred |-> "", val |-> ""]
VarQuery(v, p, x) == [var |-> v, pred |-> p, val |-> x]
\* every mention gets the name of the first one
MNameFirst(i) == "m1"

\* fmt.Sprintf("m%d", i+1), `m${index+1}`
MName(i) == "m" \o ToString(i)

\* a map that takes a new name for a user_id it already holds
RECURSIVE usersMapFresh(_, _)
usersMapFresh(tweet, n) ==
    IF n = 0 THEN [id \in {tweet.Author.UserID} |-> "u"]
    ELSE LET prev == usersMapFresh(tweet, n - 1)
             id == tweet.Mention[n].UserID
         IN [x \in DOMAIN prev \cup {id} |-> IF x = id THEN MName(n) ELSE prev[x]]

\* usersMap after the author and the first n mentions have been visited
RECURSIVE usersMap(_, _)
usersMap(tweet, n) ==
    IF n = 0 THEN [id \in {tweet.Author.UserID} |-> "u"]
    ELSE LET prev == usersMap(tweet, n - 1)
             id == tweet.Mention[n].UserID
         IN IF id \in DOMAIN prev THEN prev
            ELSE [x \in DOMAIN prev \cup {id} |-> IF x = id THEN MName(n) ELSE prev[x]]

\* the tweet keeps an empty UID
tweetUIDUnset == ""

\* tweet.UID = "uid(t)"
tweetUID == "t"

\* the author is looked up with the tweet's predicate
authorQueryByIdStr(tweet) == VarQuery("u", "id_str", tweet.Author.UserID)

\* query[1]
authorQuery(tweet) == VarQuery("u", "user_id", tweet.Author.UserID)

buildQuery(tweet) ==
    LET n == Len(tweet.Mention)
        seen(i) == usersMap(tweet, i - 1)
        varName(i) == usersMap(tweet, i)[tweet.Mention[i].UserID]
        query == [j \in 1..(n + 2) |->
                    IF j = 1 THEN VarQuery("t", "id_str", tweet.IDStr)
                    ELSE IF j = 2 THEN authorQuery(tweet)
                    ELSE IF tweet.Mention[j - 2].UserID \in DOMAIN seen(j - 2) THEN NoQuery
                    ELSE VarQuery(MName(j - 2), "user_id", tweet.Mention[j - 2].UserID)]
    IN [query |-> query,
        tweet |-> [tweet EXCEPT !.UID = tweetUID,
                                !.Author.UID = "u",
                                !.Mention = [i \in 1..n |->
                                    [tweet.Mention[i] EXCEPT !.UID = varName(i)]]]]

\* ------------------------------------------------------------------------
\* State
\* ------------------------------------------------------------------------
VARIABLES
    input,        \* the messages the tweet channel delivers, in order
    nextIdx,      \* position in input of the next message to be received
    pc,           \* per worker: position in runInserter
    cur,          \* per worker: position in input of the message in progress
    plan,         \* per worker: queryStr and the marshalled tweet
    commitNow,    \* per worker: the CommitNow flag of the request
    retry,        \* per worker: the one-retry flag
    txnFinished,  \* per worker: dgo's txn.finished of the txn made by NewTxn
    errs,         \* per worker: the errors txn.Do has returned for this message
    bind,         \* per worker: uids the request's query block bound, per variable
    conflicted,   \* per worker: a concurrent commit wrote one of the request's keys
    users,        \* backend: committed User nodes, uid -> attributes
    posts,        \* backend: committed Tweet nodes, uid -> attributes
    stats,        \* progStats
    log,          \* per message: how its processing ended
    bqIn,         \* buildQuery check: the tweet given
    bqOut,        \* buildQuery check: the result
    procPc,       \* position of main / startInserters, or how the process ended
    retryCount,   \* startInserters: failed Alter calls
    closed,       \* the tweet channel has been closed
    ftIn,         \* filterTweet check: the message given
    ftOut,        \* filterTweet check: the result
    oldStats,     \* reportStats: the counters of the previous report
    line,         \* reportStats: the STATS line printed last
    statsCopy,    \* reportInsertStats: newStats, the copy of stats, as far as it is made
    snapPos,      \* reportInsertStats: how far and in which direction the copy got
    qpc,          \* query client, per goroutine: position in runQuery
    qi,           \* query client, per goroutine: the loop variable i
    thCh,         \* query client: elements in the channel of the throttle
    qstats,       \* query client: progStats
    jsPc,         \* JS loader, per record: position of its addTweetData call
    jsRetry,      \* JS loader: the global retry
    jsErrs,       \* JS loader, per record: the errors doRequest has thrown for it
    jsCounters,   \* JS loader: totalTweets, commits, failures, retries, errors
    jsConnFailed, \* JS loader: the global connectionFailed
    jsProc,       \* JS loader: the process runs, or how it ended
    jsOut,        \* JS naming check: the result of filterTweet and buildQuery
    uftIn,        \* updateFilteredTweet check: the tweet, the users stored, the tweet stored
    uftOut,       \* updateFilteredTweet check: the result of the variant that queries
    uftOut7,      \* updateFilteredTweet check: the result of the variant that does not
    wPc,          \* download mode, per writer: position in runWriter
    wF,           \* download mode, per writer: the id of the file w.f, 0 for none
    files,        \* download mode: the output directory, by file id
    fid,          \* download mode: the global fid
    wIds,         \* download mode: the ids newFiles has obtained, in order
    dlMain,       \* download mode: position of startWriters, or how the process ended
    dlSig,        \* download mode: position of the signal goroutine
    dlRep,        \* download mode: the stats reporter runs or has exited
    clWaiting,    \* download mode: the WaitGroup counter of the closer cl
    clClosed,     \* download mode: cl has been signalled
    qParams,      \* query client, per goroutine: q.hashtags
    rnd,          \* restarting loader: the round of the loop in main
    rMain,        \* restarting loader: position of main in the round
    rLive,        \* restarting loader: the inserter goroutines alive, by round and index
    rClosed       \* restarting loader: the rounds whose closer has been signalled

vars == <<input, nextIdx, pc, cur, plan, commitNow, retry, txnFinished, errs,
          bind, conflicted, users, posts, stats, log, bqIn, bqOut,
          procPc, retryCount, closed, ftIn, ftOut, oldStats, line,
          statsCopy, snapPos, qpc, qi, thCh, qstats,
          jsPc, jsRetry, jsErrs, jsCounters, jsConnFailed, jsProc, jsOut,
          uftIn, uftOut, uftOut7,
          wPc, wF, files, fid, wIds, dlMain, dlSig, dlRep, clWaiting, clClosed,
          qParams, rnd, rMain, rLive, rClosed>>

workerVars == <<pc, cur, plan, commitNow, retry, txnFinished, errs, bind, conflicted>>
bqVars == <<bqIn, bqOut>>
procVars == <<procPc, retryCount, closed>>
ftVars == <<ftIn, ftOut>>
repVars == <<oldStats, line>>
snapVars == <<statsCopy, snapPos>>
clientVars == <<qpc, qi, thCh, qstats, qParams>>
jsVars == <<jsPc, jsRetry, jsErrs, jsCounters, jsConnFailed, jsProc>>
uftVars == <<uftIn, uftOut, uftOut7>>
dlVars == <<wPc, wF, files, fid, wIds, dlMain, dlSig, dlRep, clWaiting, clClosed>>
rVars == <<rnd, rMain, rLive, rClosed>>
extVars == <<uftVars, dlVars, rVars>>
auxVars == <<snapVars, clientVars, jsVars, jsOut, extVars>>

Writers == 1..NumWriters

\* the state of the Go loader
goVars == <<input, nextIdx, workerVars, users, posts, stats, log, bqVars,
            procVars, ftVars, repVars>>

NoPlan == [query |-> <<>>, tweet |-> NoTweet]
NoBind == [v \in {} |-> {}]
Pending == [errs |-> <<>>, counted |-> "pending", commitNow |-> FALSE]

progStats ==
    [Tweets |-> 0, Commits |-> 0, LeakedCommits |-> 0, Retries |-> 0,
     Failures |-> 0, ErrorsJSON |-> 0, ErrorsDgraph |-> 0]

\* atomic.AddUint32(&stats.X, 1); the counts stay far below 2^32
AddUint32(s, field) == [s EXCEPT ![field] = @ + 1]

\* the STATS line before any report
NoLine ==
    [tweets |-> 0, commits |-> 0, json_errs |-> 0, retries |-> 0, failures |-> 0,
     dgraph_errs |-> 0, commit_rate |-> 0]

NoResult == [err |-> "unset", ft |-> NoTweet]

\* the locals of the workers and the backend, with every worker at pc0
InitWorkers(in, pc0) ==
    /\ input = in
    /\ nextIdx = 1
    /\ pc = [w \in Workers |-> pc0]
    /\ cur = [w \in Workers |-> 0]
    /\ plan = [w \in Workers |-> NoPlan]
    /\ commitNow = [w \in Workers |-> TRUE]
    /\ retry = [w \in Workers |-> TRUE]
    /\ txnFinished = [w \in Workers |-> FALSE]
    /\ errs = [w \in Workers |-> <<>>]
    /\ bind = [w \in Workers |-> NoBind]
    /\ conflicted = [w \in Workers |-> FALSE]
    /\ users = [n \in {} |-> 0]
    /\ posts = [n \in {} |-> 0]
    /\ stats = progStats
    /\ log = [k \in 1..Len(in) |-> Pending]

Queries == 1..NumQueries
JsRecords == 1..MaxJsRecords

\* the query client's progStats
clientStats == [Success |-> 0, Failures |-> 0]

\* the JS loader's global counters
jsGlobals == [totalTweets |-> 0, commits |-> 0, failures |-> 0, retries |-> 0, errors |-> 0]

NoCopy == [dir |-> "none", n |-> 0]
NoJsOut == [tweet |-> NoTweet, query |-> <<>>]

\* the query client and the JS loader as they start, no copy of stats begun
NoUft == [ft |-> NoTweet, stored |-> {}, dup |-> FALSE]

InitUftIdle ==
    /\ uftIn = NoUft
    /\ uftOut = NoResult
    /\ uftOut7 = NoResult

\* startWriters has installed the signal handler and started the reporter;
\* the output directory holds the closed files dir
InitDownload(dir) ==
    /\ wPc = [w \in Writers |-> "unstarted"]
    /\ wF = [w \in Writers |-> 0]
    /\ files = dir
    /\ fid = 0
    /\ wIds = <<>>
    /\ dlMain = "ReadDir"
    /\ dlSig = "waiting"
    /\ dlRep = "running"
    /\ clWaiting = 1
    /\ clClosed = FALSE

\* main is about to start its first round
InitRounds ==
    /\ rnd = 1
    /\ rMain = [pc |-> "getTrends", i |-> 0]
    /\ rLive = [g \in {} |-> "select"]
    /\ rClosed = {}

InitExt ==
    /\ InitUftIdle
    /\ InitDownload(<<>>)
    /\ InitRounds

InitSide ==
    /\ statsCopy = progStats
    /\ snapPos = NoCopy
    /\ qpc = [g \in Queries |-> "params"]
    /\ qi = [g \in Queries |-> 0]
    /\ thCh = 0
    /\ qstats = clientStats
    /\ qParams = [g \in Queries |-> {}]
    /\ jsPc = [r \in JsRecords |-> "new"]
    /\ jsRetry = TRUE
    /\ jsErrs = [r \in JsRecords |-> <<>>]
    /\ jsCounters = jsGlobals
    /\ jsConnFailed = FALSE
    /\ jsProc = "running"
    /\ jsOut = NoJsOut

InitAux ==
    /\ InitSide
    /\ InitExt

\* nothing has been reported, no function is under check
InitIdle ==
    /\ ftIn = NotATweet
    /\ ftOut = NoResult
    /\ oldStats = progStats
    /\ line = NoLine
    /\ InitAux

\* the schema is set and the inserters have been started on the channel
InitLoader(in) ==
    /\ InitWorkers(in, "idle")
    /\ procPc = "running"
    /\ retryCount = 0
    /\ closed = FALSE

Init ==
    /\ \E in \in Streams : InitLoader(in)
    /\ bqIn = NoTweet
    /\ bqOut = NoPlan
    /\ InitIdle

\* ------------------------------------------------------------------------
\* Backend: query block, conflict keys, mutation
\* ------------------------------------------------------------------------
Match(pred, val) ==
    IF pred = "id_str" THEN {n \in DOMAIN posts : posts[n].id_str = val}
    ELSE IF pred = "user_id" THEN {n \in DOMAIN users : users[n].user_id = val}
    ELSE {}

QueryVars(query) == {query[j].var : j \in DOMAIN query} \ {""}

\* uids bound to each variable of the query block, read at the txn's start
RunQuery(query) ==
    [v \in QueryVars(query) |->
        UNION {Match(query[j].pred, query[j].val) :
                  j \in {i \in DOMAIN query : query[i].var = v}}]

\* the variables the mutation refers to as uid(x); UID "" is left out of the JSON
UsedVars(tweet) ==
    ({tweet.UID, tweet.Author.UID} \cup {tweet.Mention[i].UID : i \in DOMAIN tweet.Mention})
        \ {""}

\* index keys of the @upsert predicates that the mutation writes
ConflictKeys(tweet) ==
    {<<"id_str", tweet.IDStr>>, <<"user_id", tweet.Author.UserID>>}
        \cup {<<"user_id", tweet.Mention[i].UserID>> : i \in DOMAIN tweet.Mention}

\* uid(v): the nodes v is bound to, or one new node when v is empty; an
\* object without uid is a new node as well
Resolve(b, k, v) == IF v = "" \/ b[v] = {} THEN {<<k, v>>} ELSE b[v]

MutatedUsers(tweet, b, k) ==
    LET A == Resolve(b, k, tweet.Author.UID)
        M(i) == Resolve(b, k, tweet.Mention[i].UID)
        Ms == UNION {M(i) : i \in DOMAIN tweet.Mention}
    IN [n \in DOMAIN users \cup A \cup Ms |->
          [user_id |-> IF n \in A THEN tweet.Author.UserID
                       ELSE IF n \in Ms
                            THEN tweet.Mention[CHOOSE i \in DOMAIN tweet.Mention : n \in M(i)].UserID
                            ELSE users[n].user_id,
           followers_count |-> IF n \in A THEN tweet.Author.FollowersCount
                               ELSE IF n \in DOMAIN users THEN users[n].followers_count
                               ELSE 0]]

MutatedPosts(tweet, b, k) ==
    LET T == Resolve(b, k, tweet.UID)
        A == Resolve(b, k, tweet.Author.UID)
        Ms == UNION {Resolve(b, k, tweet.Mention[i].UID) : i \in DOMAIN tweet.Mention}
    IN [n \in DOMAIN posts \cup T |->
          IF n \in T
          THEN [id_str |-> tweet.IDStr, author |-> A,
                mention |-> (IF n \in DOMAIN posts THEN posts[n].mention ELSE {}) \cup Ms]
          ELSE posts[n]]

\* ------------------------------------------------------------------------
\* runInserter
\* ------------------------------------------------------------------------
Finish(w, es, counted) ==
    log' = [log EXCEPT ![cur[w]] =
               [errs |-> es, counted |-> counted, commitNow |-> commitNow[w]]]

\* case jsn, more := <-tweets with more = true, up to the RETRY label
Receive(w) ==
    /\ pc[w] = "idle"
    /\ procPc = "running"
    /\ nextIdx <= Len(input)
    /\ nextIdx' = nextIdx + 1
    /\ cur' = [cur EXCEPT ![w] = nextIdx]
    /\ errs' = [errs EXCEPT ![w] = <<>>]
    /\ LET r == filterTweet(input[nextIdx])
       IN IF r.err # "nil"
          THEN /\ stats' = AddUint32(AddUint32(stats, "Tweets"), "ErrorsJSON")
               /\ log' = [log EXCEPT ![nextIdx] =
                             [errs |-> <<>>, counted |-> "ErrorsJSON", commitNow |-> FALSE]]
               /\ UNCHANGED <<pc, plan, commitNow, retry, txnFinished>>
          ELSE /\ stats' = AddUint32(stats, "Tweets")
               /\ txnFinished' = [txnFinished EXCEPT ![w] = FALSE]
               /\ plan' = [plan EXCEPT ![w] = buildQuery(r.ft)]
               /\ \E cn \in BOOLEAN : commitNow' = [commitNow EXCEPT ![w] = cn]
               /\ retry' = [retry EXCEPT ![w] = TRUE]
               /\ pc' = [pc EXCEPT ![w] = "RETRY"]
               /\ UNCHANGED log
    /\ UNCHANGED <<input, bind, conflicted, users, posts, bqVars, procVars, ftVars, repVars, auxVars>>

\* a worker that stays in the select when the channel is closed
ExitIgnoringClose(w) ==
    /\ pc[w] = "idle"
    /\ procPc = "stopping"
    /\ pc' = [pc EXCEPT ![w] = "exited"]
    /\ UNCHANGED <<input, nextIdx, cur, plan, commitNow, retry, txnFinished, errs,
                   bind, conflicted, users, posts, stats, log, bqVars, procVars, ftVars, repVars, auxVars>>

\* case jsn, more := <-tweets with more = false
Exit(w) ==
    /\ pc[w] = "idle"
    /\ closed
    /\ pc' = [pc EXCEPT ![w] = "exited"]
    /\ UNCHANGED <<input, nextIdx, cur, plan, commitNow, retry, txnFinished, errs,
                   bind, conflicted, users, posts, stats, log, bqVars, procVars, ftVars, repVars, auxVars>>

\* a switch that also retries after "connection refused"
ClassifyRetryRefused(err, retryFlag) ==
    IF err = "nil" THEN "ok"
    ELSE IF err = "refused" THEN (IF retryFlag THEN "retry" ELSE "refused")
    ELSE IF err = "finished" THEN "finished"
    ELSE IF retryFlag /\ err = "retry" THEN "retry"
    ELSE "default"

\* which case of the switch on err is taken
Classify(err, retryFlag) ==
    IF err = "nil" THEN "ok"
    ELSE IF err = "refused" THEN "refused"
    ELSE IF err = "finished" THEN "finished"
    ELSE IF retryFlag /\ err = "retry" THEN "retry"
    ELSE "default"

\* the worker is back at the select: the locals of the iteration are gone
Release(w) ==
    /\ pc' = [pc EXCEPT ![w] = "idle"]
    /\ cur' = [cur EXCEPT ![w] = 0]
    /\ plan' = [plan EXCEPT ![w] = NoPlan]
    /\ commitNow' = [commitNow EXCEPT ![w] = TRUE]
    /\ retry' = [retry EXCEPT ![w] = TRUE]
    /\ txnFinished' = [txnFinished EXCEPT ![w] = FALSE]
    /\ errs' = [errs EXCEPT ![w] = <<>>]

\* a switch that counts a conflict as a failure before it resubmits
SwitchRetryCountsFailure(w, err, fin) ==
    LET es == Append(errs[w], err)
        c == Classify(err, retry[w])
    IN CASE c = "ok" ->
              /\ stats' = AddUint32(stats, IF commitNow[w] THEN "Commits" ELSE "LeakedCommits")
              /\ Finish(w, es, IF commitNow[w] THEN "Commits" ELSE "LeakedCommits")
              /\ Release(w)
         [] c = "refused" ->
              /\ pc' = [pc EXCEPT ![w] = "sleep"]
              /\ errs' = [errs EXCEPT ![w] = es]
              /\ txnFinished' = [txnFinished EXCEPT ![w] = fin]
              /\ UNCHANGED <<stats, retry, log, cur, plan, commitNow>>
         [] c = "finished" ->
              /\ stats' = AddUint32(stats, "Failures")
              /\ Finish(w, es, "Failures")
              /\ Release(w)
         [] c = "retry" ->
              /\ stats' = AddUint32(AddUint32(stats, "Retries"), "Failures")
              /\ retry' = [retry EXCEPT ![w] = FALSE]
              /\ pc' = [pc EXCEPT ![w] = "RETRY"]
              /\ errs' = [errs EXCEPT ![w] = es]
              /\ txnFinished' = [txnFinished EXCEPT ![w] = fin]
              /\ UNCHANGED <<log, cur, plan, commitNow>>
         [] OTHER ->
              /\ stats' = AddUint32(stats, "ErrorsDgraph")
              /\ Finish(w, es, "ErrorsDgraph")
              /\ Release(w)

\* txn.Do returns err to the worker, leaving txn.finished = fin, and the
\* worker runs the switch on err
Switch(w, err, fin) ==
    LET es == Append(errs[w], err)
        c == Classify(err, retry[w])
    IN CASE c = "ok" ->
              /\ stats' = AddUint32(stats, IF commitNow[w] THEN "Commits" ELSE "LeakedCommits")
              /\ Finish(w, es, IF commitNow[w] THEN "Commits" ELSE "LeakedCommits")
              /\ Release(w)
         [] c = "refused" ->
              /\ pc' = [pc EXCEPT ![w] = "sleep"]
              /\ errs' = [errs EXCEPT ![w] = es]
              /\ txnFinished' = [txnFinished EXCEPT ![w] = fin]
              /\ UNCHANGED <<stats, retry, log, cur, plan, commitNow>>
         [] c = "finished" ->
              /\ stats' = AddUint32(stats, "Failures")
              /\ Finish(w, es, "Failures")
              /\ Release(w)
         [] c = "retry" ->
              /\ stats' = AddUint32(stats, "Retries")
              /\ retry' = [retry EXCEPT ![w] = FALSE]
              /\ pc' = [pc EXCEPT ![w] = "RETRY"]
              /\ errs' = [errs EXCEPT ![w] = es]
              /\ txnFinished' = [txnFinished EXCEPT ![w] = fin]
              /\ UNCHANGED <<log, cur, plan, commitNow>>
         [] OTHER ->
              /\ stats' = AddUint32(stats, "ErrorsDgraph")
              /\ Finish(w, es, "ErrorsDgraph")
              /\ Release(w)

\* a request that stays open at the backend after its answer
AnsweredStaysOpen(w) ==
    /\ conflicted' = [conflicted EXCEPT ![w] = FALSE]
    /\ UNCHANGED bind

\* the request of w is over
Answered(w) ==
    /\ bind' = [bind EXCEPT ![w] = NoBind]
    /\ conflicted' = [conflicted EXCEPT ![w] = FALSE]

\* txn.Do on a txn that is finished: ErrFinished, nothing is sent
DoFinished(w) ==
    /\ pc[w] = "RETRY"
    /\ txnFinished[w]
    /\ Switch(w, "finished", TRUE)
    /\ UNCHANGED <<input, nextIdx, bind, conflicted, users, posts, bqVars, procVars, ftVars, repVars, auxVars>>

\* txn.Do when no alpha accepts the connection
DoRefused(w) ==
    /\ pc[w] = "RETRY"
    /\ ~txnFinished[w]
    /\ Switch(w, "refused", TRUE)
    /\ UNCHANGED <<input, nextIdx, bind, conflicted, users, posts, bqVars, procVars, ftVars, repVars, auxVars>>

\* txn.Do: the request reaches an alpha, which runs the query block
DoSend(w) ==
    /\ pc[w] = "RETRY"
    /\ ~txnFinished[w]
    /\ bind' = [bind EXCEPT ![w] = RunQuery(plan[w].query)]
    /\ conflicted' = [conflicted EXCEPT ![w] = FALSE]
    /\ pc' = [pc EXCEPT ![w] = "inflight"]
    /\ UNCHANGED <<input, nextIdx, cur, plan, commitNow, retry, txnFinished, errs,
                   users, posts, stats, log, bqVars, procVars, ftVars, repVars, auxVars>>

\* every uid(x) of the mutation names a variable of the query block
Valid(w) == UsedVars(plan[w].tweet) \subseteq DOMAIN bind[w]

\* the alpha answers with an error that is neither a conflict nor a refusal
BackendError(w) ==
    /\ pc[w] = "inflight"
    /\ Switch(w, "other", TRUE)
    /\ Answered(w)
    /\ UNCHANGED <<input, nextIdx, users, posts, bqVars, procVars, ftVars, repVars, auxVars>>

\* the commit is refused: a txn committed since this one started wrote one
\* of its keys ("Transaction has been aborted. Please retry")
BackendAbort(w) ==
    /\ pc[w] = "inflight"
    /\ Valid(w)
    /\ commitNow[w]
    /\ conflicted[w]
    /\ Switch(w, "retry", TRUE)
    /\ Answered(w)
    /\ UNCHANGED <<input, nextIdx, users, posts, bqVars, procVars, ftVars, repVars, auxVars>>

Overlap(w, v) == ConflictKeys(plan[w].tweet) \cap ConflictKeys(plan[v].tweet) # {}

\* the mutation is applied and committed
BackendCommit(w) ==
    /\ pc[w] = "inflight"
    /\ Valid(w)
    /\ commitNow[w]
    /\ ~conflicted[w]
    /\ users' = MutatedUsers(plan[w].tweet, bind[w], cur[w])
    /\ posts' = MutatedPosts(plan[w].tweet, bind[w], cur[w])
    /\ conflicted' = [v \in Workers |->
                         IF v # w /\ pc[v] = "inflight" /\ Overlap(w, v)
                         THEN TRUE ELSE conflicted[v]]
    /\ bind' = [bind EXCEPT ![w] = NoBind]
    /\ Switch(w, "nil", TRUE)
    /\ UNCHANGED <<input, nextIdx, bqVars, procVars, ftVars, repVars, auxVars>>

\* a backend that commits the mutation of a request without CommitNow
BackendStageCommits(w) ==
    /\ pc[w] = "inflight"
    /\ Valid(w)
    /\ ~commitNow[w]
    /\ users' = MutatedUsers(plan[w].tweet, bind[w], cur[w])
    /\ posts' = MutatedPosts(plan[w].tweet, bind[w], cur[w])
    /\ Switch(w, "nil", FALSE)
    /\ Answered(w)
    /\ UNCHANGED <<input, nextIdx, bqVars, procVars, ftVars, repVars, auxVars>>

\* CommitNow = false: the mutation is staged in the open txn, nothing is committed
BackendStage(w) ==
    /\ pc[w] = "inflight"
    /\ Valid(w)
    /\ ~commitNow[w]
    /\ Switch(w, "nil", FALSE)
    /\ Answered(w)
    /\ UNCHANGED <<input, nextIdx, users, posts, bqVars, procVars, ftVars, repVars, auxVars>>

\* a cooldown that jumps back to RETRY
CooldownAndRetry(w) ==
    /\ pc[w] = "sleep"
    /\ pc' = [pc EXCEPT ![w] = "RETRY"]
    /\ UNCHANGED <<input, nextIdx, cur, plan, commitNow, retry, txnFinished, errs,
                   bind, conflicted, users, posts, stats, log, bqVars, procVars, ftVars, repVars, auxVars>>

\* time.Sleep(5 * time.Second) after "connection refused", then the next select
Cooldown(w) ==
    /\ pc[w] = "sleep"
    /\ Finish(w, errs[w], "none")
    /\ Release(w)
    /\ UNCHANGED <<input, nextIdx, bind, conflicted, users, posts, stats, bqVars, procVars, ftVars, repVars, auxVars>>

\* a reader that closes the channel before the files are read to their end
CloseChanEarly ==
    /\ procPc \in {"alter", "sleep", "running"}
    /\ ~closed
    /\ closed' = TRUE
    /\ UNCHANGED <<input, nextIdx, workerVars, users, posts, stats, log, bqVars,
                   procPc, retryCount, ftVars, repVars, auxVars>>

\* the reader goroutine: every file is read to its end, close(dataChan)
CloseChan ==
    /\ procPc \in {"alter", "sleep", "running"}
    /\ nextIdx > Len(input)
    /\ ~closed
    /\ closed' = TRUE
    /\ UNCHANGED <<input, nextIdx, workerVars, users, posts, stats, log, bqVars,
                   procPc, retryCount, ftVars, repVars, auxVars>>

\* c.Wait() is over (or c.SignalAndWait()): r.SignalAndWait(), return
Return ==
    /\ procPc \in {"running", "stopping"}
    /\ \A w \in Workers : pc[w] = "exited"
    /\ procPc' = "returned"
    /\ UNCHANGED <<input, nextIdx, workerVars, users, posts, stats, log, bqVars,
                   retryCount, closed, ftVars, repVars, auxVars>>

Next ==
    \/ \E w \in Workers :
        \/ Receive(w)
        \/ Exit(w)
        \/ DoFinished(w)
        \/ DoRefused(w)
        \/ DoSend(w)
        \/ BackendError(w)
        \/ BackendAbort(w)
        \/ BackendCommit(w)
        \/ BackendStage(w)
        \/ Cooldown(w)
    \/ CloseChan
    \/ Return

Spec == Init /\ [][Next]_vars

\* ------------------------------------------------------------------------
\* buildQuery on its own: every tweet with up to MaxMentions mentions
\* ------------------------------------------------------------------------
BQInputs ==
    {[IDStr |-> p, UID |-> "",
      Author |-> [UserID |-> a, UID |-> "", FollowersCount |-> 1],
      Mention |-> [i \in DOMAIN ms |-> [UserID |-> ms[i], UID |-> ""]],
      URLs |-> <<>>, HashTags |-> <<>>] :
        p \in PostIds, a \in UserIds, ms \in SeqsUpTo(UserIds, MaxMentions)}

InitBQ ==
    /\ InitLoader(<<>>)
    /\ bqIn \in BQInputs
    /\ bqOut = NoPlan
    /\ InitIdle

BuildQuery ==
    /\ bqOut = NoPlan
    /\ bqOut' = buildQuery(bqIn)
    /\ UNCHANGED <<input, nextIdx, workerVars, users, posts, stats, log, bqIn,
                   procVars, ftVars, repVars, auxVars>>

NextBQ == BuildQuery

SpecBQ == InitBQ /\ [][NextBQ]_vars

\* ------------------------------------------------------------------------
\* filterTweet and buildQuery of the JS loader on the same tweets
\* ------------------------------------------------------------------------
\* usersObject after the author and the first n mentions have been visited
RECURSIVE usersObject(_, _, _)
usersObject(author, ids, n) ==
    IF n = 0 THEN [id \in {author} |-> "u"]
    ELSE LET prev == usersObject(author, ids, n - 1)
         IN IF ids[n] \in DOMAIN prev THEN prev
            ELSE [x \in DOMAIN prev \cup {ids[n]} |-> IF x = ids[n] THEN MName(n) ELSE prev[x]]

\* tweetObj: 'uid': 'uid(x)' is kept as x
jsFilterTweet(tweet) ==
    LET ids == [i \in DOMAIN tweet.Mention |-> tweet.Mention[i].UserID]
    IN [uid |-> "t",
        id_str |-> tweet.IDStr,
        mention |-> [i \in DOMAIN ids |->
                        [uid |-> usersObject(tweet.Author.UserID, ids, i)[ids[i]],
                         user_id |-> ids[i]]],
        author |-> [uid |-> "u", user_id |-> tweet.Author.UserID]]

\* the array query after the first n mentions have been visited
RECURSIVE jsQuery(_, _)
jsQuery(tweetObj, n) ==
    IF n = 0
    THEN <<VarQuery("t", "id_str", tweetObj.id_str),
           VarQuery("u", "user_id", tweetObj.author.user_id)>>
    ELSE LET ids == [i \in DOMAIN tweetObj.mention |-> tweetObj.mention[i].user_id]
             seen == usersObject(tweetObj.author.user_id, ids, n - 1)
         IN IF ids[n] \in DOMAIN seen THEN jsQuery(tweetObj, n - 1)
            ELSE Append(jsQuery(tweetObj, n - 1), VarQuery(MName(n), "user_id", ids[n]))

jsBuildQuery(tweetObj) == jsQuery(tweetObj, Len(tweetObj.mention))

\* addTweetData up to upsertData, on the tweet that bqIn was filtered from
JsPlan ==
    /\ jsOut = NoJsOut
    /\ jsOut' = [tweet |-> jsFilterTweet(bqIn), query |-> jsBuildQuery(jsFilterTweet(bqIn))]
    /\ UNCHANGED <<input, nextIdx, workerVars, users, posts, stats, log, bqVars,
                   procVars, ftVars, repVars, snapVars, clientVars, jsVars, extVars>>

NextNames == BuildQuery \/ JsPlan

SpecNames == InitBQ /\ [][NextNames]_vars

\* ------------------------------------------------------------------------
\* filterTweet on its own: posts with up to MaxTags hashtag entities and up
\* to MaxUrls URL entities, and the two messages it rejects
\* ------------------------------------------------------------------------
HashtagEntities == {[Text |-> t] : t \in {"", "go", "db"}}

UrlEntities ==
    {[Url |-> "t.co/1", Expanded_url |-> "a.io/1"],
     [Url |-> "t.co/2", Expanded_url |-> "b.io/2"]}

FTInputs ==
    {[TweetA EXCEPT !.Hashtags = h, !.Urls = u] :
        h \in SeqsUpTo(HashtagEntities, MaxTags), u \in SeqsUpTo(UrlEntities, MaxUrls)}
    \cup {BadTime, NotATweet}

InitFT ==
    /\ InitLoader(<<>>)
    /\ bqIn = NoTweet
    /\ bqOut = NoPlan
    /\ ftIn \in FTInputs
    /\ ftOut = NoResult
    /\ oldStats = progStats
    /\ line = NoLine
    /\ InitAux

FilterTweet ==
    /\ ftOut = NoResult
    /\ ftOut' = filterTweet(ftIn)
    /\ UNCHANGED <<input, nextIdx, workerVars, users, posts, stats, log, bqVars,
                   procVars, ftIn, repVars, auxVars>>

NextFT == FilterTweet

SpecFT == InitFT /\ [][NextFT]_vars

\* the worker loop on streams that repeat one post, with every sleep
\* coming to its end
InitFair ==
    /\ \E in \in StreamsOf({TweetA}) : InitLoader(in)
    /\ bqIn = NoTweet
    /\ bqOut = NoPlan
    /\ InitIdle

FairSpec == InitFair /\ [][Next]_vars /\ \A w \in Workers : WF_vars(Cooldown(w))

\* the worker loop on streams of one post and the messages filterTweet rejects
InitShape ==
    /\ \E in \in StreamsOf({TweetA, BadTime, NotATweet}) : InitLoader(in)
    /\ bqIn = NoTweet
    /\ bqOut = NoPlan
    /\ InitIdle

SpecShape == InitShape /\ [][Next]_vars

\* the worker loop on streams of two posts of one author
InitPair ==
    /\ \E in \in StreamsOf({TweetA, TweetC}) : InitLoader(in)
    /\ bqIn = NoTweet
    /\ bqOut = NoPlan
    /\ InitIdle

SpecPair == InitPair /\ [][Next]_vars

\* the switch of runInserter on its own: what txn.Do returns is an input of
\* the worker, and the txn can be used again after it
DoErrors == {"nil", "refused", "finished", "retry", "other"}

DoAny(w, err) ==
    /\ pc[w] = "RETRY"
    /\ Switch(w, err, FALSE)
    /\ UNCHANGED <<input, nextIdx, bind, conflicted, users, posts, bqVars, procVars, ftVars, repVars, auxVars>>

NextAnyDo ==
    \/ \E w \in Workers :
          \/ Receive(w)
          \/ \E err \in DoErrors : DoAny(w, err)
          \/ Cooldown(w)
          \/ Exit(w)
    \/ CloseChan
    \/ Return

SpecAnyDo == InitFair /\ [][NextAnyDo]_vars

\* ------------------------------------------------------------------------
\* The process: schema set-up, the reader goroutine, shutdown
\* ------------------------------------------------------------------------
\* checkFatal with err # nil: the message is printed, os.Exit(1)
checkFatal(format) == "exit 1: " \o format

CreatingIndexes == checkFatal("error in creating indexes")
ReaderErrors == {checkFatal("error in opening file"), checkFatal("error in scanning file")}

\* an Alter loop that never gives up
AlterFailNoAbort ==
    /\ procPc = "alter"
    /\ retryCount <= 3
    /\ retryCount' = retryCount + 1
    /\ procPc' = "sleep"
    /\ UNCHANGED <<input, nextIdx, workerVars, users, posts, stats, log, bqVars,
                   closed, ftVars, repVars, auxVars>>

\* dgr.Alter returns an error: retryCount++, checkFatal at 3, else the sleep
AlterFail ==
    /\ procPc = "alter"
    /\ retryCount' = retryCount + 1
    /\ procPc' = IF retryCount' = 3 THEN CreatingIndexes ELSE "sleep"
    /\ UNCHANGED <<input, nextIdx, workerVars, users, posts, stats, log, bqVars,
                   closed, ftVars, repVars, auxVars>>

\* time.Sleep(1 * time.Second), then the next Alter
AlterSleep ==
    /\ procPc = "sleep"
    /\ procPc' = "alter"
    /\ UNCHANGED <<input, nextIdx, workerVars, users, posts, stats, log, bqVars,
                   retryCount, closed, ftVars, repVars, auxVars>>

\* dgr.Alter returns nil: the loop is left and the inserters are started
AlterOk ==
    /\ procPc = "alter"
    /\ procPc' = "running"
    /\ pc' = [w \in Workers |-> "idle"]
    /\ UNCHANGED <<input, nextIdx, cur, plan, commitNow, retry, txnFinished, errs,
                   bind, conflicted, users, posts, stats, log, bqVars,
                   retryCount, closed, ftVars, repVars, auxVars>>

\* the reader goroutine cannot open or scan a data file: checkFatal ends
\* the process with every goroutine in it
ReaderFatal ==
    /\ procPc \in {"alter", "sleep", "running"}
    /\ ~closed
    /\ \E e \in ReaderErrors : procPc' = e
    /\ pc' = [w \in Workers |-> "killed"]
    /\ UNCHANGED <<input, nextIdx, cur, plan, commitNow, retry, txnFinished, errs,
                   bind, conflicted, users, posts, stats, log, bqVars,
                   retryCount, closed, ftVars, repVars, auxVars>>

\* the stream variant of main: after opts.Timeout, stream.Stop() and the
\* signal of c.SignalAndWait()
Shutdown ==
    /\ procPc = "running"
    /\ procPc' = "stopping"
    /\ UNCHANGED <<input, nextIdx, workerVars, users, posts, stats, log, bqVars,
                   retryCount, closed, ftVars, repVars, auxVars>>

\* a worker that leaves wherever it is when the closer is signalled
ExitOnSignalAnywhere(w) ==
    /\ pc[w] \in {"idle", "RETRY", "inflight", "sleep"}
    /\ procPc = "stopping"
    /\ pc' = [pc EXCEPT ![w] = "exited"]
    /\ UNCHANGED <<input, nextIdx, cur, plan, commitNow, retry, txnFinished, errs,
                   bind, conflicted, users, posts, stats, log, bqVars, procVars, ftVars, repVars, auxVars>>

\* case <-c.HasBeenClosed(): return
ExitOnSignal(w) ==
    /\ pc[w] = "idle"
    /\ procPc = "stopping"
    /\ pc' = [pc EXCEPT ![w] = "exited"]
    /\ UNCHANGED <<input, nextIdx, cur, plan, commitNow, retry, txnFinished, errs,
                   bind, conflicted, users, posts, stats, log, bqVars, procVars, ftVars, repVars, auxVars>>

InitProc ==
    /\ \E in \in StreamsOf({TweetA}) : InitWorkers(in, "unstarted")
    /\ procPc = "alter"
    /\ retryCount = 0
    /\ closed = FALSE
    /\ bqIn = NoTweet
    /\ bqOut = NoPlan
    /\ InitIdle

\* the loader from its start, reading data files
NextProc ==
    \/ Next
    \/ AlterFail
    \/ AlterSleep
    \/ AlterOk
    \/ ReaderFatal

ProcSpec == InitProc /\ [][NextProc]_vars

\* the started inserters, with a shutdown
NextStop ==
    \/ Next
    \/ Shutdown
    \/ \E w \in Workers : ExitOnSignal(w)

\* the steps of worker w, of the backend on its request included
Step(w) ==
    \/ Receive(w)
    \/ Exit(w)
    \/ ExitOnSignal(w)
    \/ DoFinished(w)
    \/ DoRefused(w)
    \/ DoSend(w)
    \/ BackendError(w)
    \/ BackendAbort(w)
    \/ BackendCommit(w)
    \/ BackendStage(w)
    \/ Cooldown(w)

\* every goroutine that can run does run, and every request is answered
Fairness ==
    /\ \A w \in Workers : WF_vars(Step(w))
    /\ WF_vars(CloseChan)
    /\ WF_vars(Return)

StopSpec == InitFair /\ [][NextStop]_vars /\ Fairness

\* the inserters on a readable, finite input
FairLoader == InitFair /\ [][Next]_vars /\ Fairness

\* ------------------------------------------------------------------------
\* reportStats (the variant of src/main.go) next to the inserters
\* ------------------------------------------------------------------------
ReportPeriodSecs == 2

\* one round of the loop: the STATS line of the counters as they are read
ReportStats ==
    /\ procPc = "running"
    /\ LET newStats == stats
       IN /\ line' = [tweets |-> newStats.Tweets, commits |-> newStats.Commits,
                      json_errs |-> newStats.ErrorsJSON, retries |-> newStats.Retries,
                      failures |-> newStats.Failures,
                      dgraph_errs |-> newStats.ErrorsDgraph,
                      commit_rate |->
                          (newStats.Tweets - oldStats.Tweets) \div ReportPeriodSecs]
          /\ oldStats' = newStats
    /\ UNCHANGED <<input, nextIdx, workerVars, users, posts, stats, log, bqVars,
                   procVars, ftVars, auxVars>>

NextReport ==
    \/ Next
    \/ ReportStats

SpecReport == InitFair /\ [][NextReport]_vars

\* ------------------------------------------------------------------------
\* reportInsertStats: newStats = stats is a plain copy of the struct, made
\* while the workers add to its fields; the words are read one after the
\* other, from the first field to the last or from the last to the first
\* ------------------------------------------------------------------------
StatFields ==
    <<"Tweets", "Commits", "LeakedCommits", "Retries", "Failures", "ErrorsJSON",
      "ErrorsDgraph">>

\* case <-ticker.C: the copy begins
CopyStart ==
    /\ procPc = "running"
    /\ snapPos = NoCopy
    /\ \E d \in {"up", "down"} : snapPos' = [dir |-> d, n |-> 0]
    /\ UNCHANGED <<goVars, statsCopy, clientVars, jsVars, jsOut, extVars>>

\* the next word of stats is read into newStats
CopyField ==
    /\ snapPos # NoCopy
    /\ snapPos.n < Len(StatFields)
    /\ LET f == StatFields[IF snapPos.dir = "up" THEN snapPos.n + 1
                           ELSE Len(StatFields) - snapPos.n]
       IN statsCopy' = [statsCopy EXCEPT ![f] = stats[f]]
    /\ snapPos' = [snapPos EXCEPT !.n = @ + 1]
    /\ UNCHANGED <<goVars, clientVars, jsVars, jsOut, extVars>>

\* log.Printf of the STATS line, oldStats = newStats
PrintStats ==
    /\ snapPos # NoCopy
    /\ snapPos.n = Len(StatFields)
    /\ line' = [tweets |-> statsCopy.Tweets, commits |-> statsCopy.Commits,
                leaked |-> statsCopy.LeakedCommits,
                json_errs |-> statsCopy.ErrorsJSON, retries |-> statsCopy.Retries,
                failures |-> statsCopy.Failures,
                dgraph_errs |-> statsCopy.ErrorsDgraph,
                commit_rate |->
                    (statsCopy.Commits - oldStats.Commits) \div ReportPeriodSecs]
    /\ oldStats' = statsCopy
    /\ snapPos' = NoCopy
    /\ UNCHANGED <<input, nextIdx, workerVars, users, posts, stats, log, bqVars,
                   procVars, ftVars, statsCopy, clientVars, jsVars, jsOut, extVars>>

NextSnap ==
    \/ Next
    \/ CopyStart
    \/ CopyField
    \/ PrintStats

SpecSnap == InitFair /\ [][NextSnap]_vars


\* ------------------------------------------------------------------------
\* The query client: runQuery goroutines behind a throttle
\* ------------------------------------------------------------------------
\* a throttle that lets every caller through
ThDoUnthrottled(g) ==
    /\ qpc[g] \in {"params", "query"}
    /\ qstats.Success + qstats.Failures + thCh < MaxQueryCalls
    /\ thCh' = thCh + 1
    /\ qpc' = [qpc EXCEPT ![g] = IF qpc[g] = "params" THEN "getParams" ELSE "runQuery"]
    /\ UNCHANGED <<goVars, qi, qstats, qParams, snapVars, jsVars, jsOut, extVars>>

\* th.Do(): the send on the throttle's channel of capacity NumQueryAtATime
\* goes through; the parameter query or the actual query starts
ThDo(g) ==
    /\ qpc[g] \in {"params", "query"}
    /\ qstats.Success + qstats.Failures + thCh < MaxQueryCalls
    /\ thCh < NumQueryAtATime
    /\ thCh' = thCh + 1
    /\ qpc' = [qpc EXCEPT ![g] = IF qpc[g] = "params" THEN "getParams" ELSE "runQuery"]
    /\ UNCHANGED <<goVars, qi, qstats, qParams, snapVars, jsVars, jsOut, extVars>>

\* what the parameter query can answer: an error, or tweets with these hashtags
ClientTags == {"", "go"}
ParamResponses ==
    {[err |-> "error", tags |-> {}]} \cup {[err |-> "nil", tags |-> H] : H \in SUBSET ClientTags}

\* a getParams that accepts an empty list
getParamsAcceptsEmpty(hashtags, resp) ==
    IF resp.err # "nil" THEN [hashtags |-> hashtags, err |-> resp.err]
    ELSE [hashtags |-> resp.tags \ {""}, err |-> "nil"]

\* queryOne.getParams: q.hashtags after the call, and the error returned
getParams(hashtags, resp) ==
    IF resp.err # "nil" THEN [hashtags |-> hashtags, err |-> resp.err]
    ELSE IF resp.tags \ {""} = {} THEN [hashtags |-> {}, err |-> "errInvalidResponse"]
    ELSE [hashtags |-> resp.tags \ {""}, err |-> "nil"]

\* query.getParams returns, th.Done(nil), and the counter for err
GetParams(g) ==
    /\ qpc[g] = "getParams"
    /\ thCh' = thCh - 1
    /\ \E resp \in ParamResponses :
          LET r == getParams(qParams[g], resp)
          IN /\ qParams' = [qParams EXCEPT ![g] = r.hashtags]
             /\ IF r.err # "nil"
                THEN /\ qstats' = AddUint32(qstats, "Failures")
                     /\ qpc' = [qpc EXCEPT ![g] = "params"]
                     /\ UNCHANGED qi
                ELSE /\ qstats' = AddUint32(qstats, "Success")
                     /\ qi' = [qi EXCEPT ![g] = 0]
                     /\ qpc' = [qpc EXCEPT ![g] = "query"]
    /\ UNCHANGED <<goVars, snapVars, jsVars, jsOut, extVars>>

\* query.runQuery returns, th.Done(nil), the counter for err, i++;
\* q.hashtags[rand.Intn(len(q.hashtags))] panics on an empty list
ClientRunQuery(g) ==
    /\ qpc[g] = "runQuery"
    /\ IF qParams[g] = {}
       THEN /\ qpc' = [qpc EXCEPT ![g] = "panic"]
            /\ UNCHANGED <<thCh, qstats, qi>>
       ELSE /\ thCh' = thCh - 1
            /\ \E err \in {"nil", "error"} :
                  qstats' = AddUint32(qstats, IF err # "nil" THEN "Failures" ELSE "Success")
            /\ qi' = [qi EXCEPT ![g] = qi[g] + 1]
            /\ qpc' = [qpc EXCEPT ![g] =
                          IF qi[g] + 1 < ActualQueries THEN "query" ELSE "params"]
    /\ UNCHANGED <<goVars, qParams, snapVars, jsVars, jsOut, extVars>>

\* the earlier runQuery loop: getParams returns; th.Done(nil) comes after the
\* continue of the error branch
GetParamsOld(g) ==
    /\ qpc[g] = "getParams"
    /\ \E resp \in ParamResponses :
          LET r == getParams(qParams[g], resp)
          IN /\ qParams' = [qParams EXCEPT ![g] = r.hashtags]
             /\ IF r.err # "nil"
                THEN /\ qstats' = AddUint32(qstats, "Failures")
                     /\ qpc' = [qpc EXCEPT ![g] = "params"]
                     /\ UNCHANGED <<qi, thCh>>
                ELSE /\ thCh' = thCh - 1
                     /\ qi' = [qi EXCEPT ![g] = 0]
                     /\ qpc' = [qpc EXCEPT ![g] = "query"]
                     /\ UNCHANGED qstats
    /\ UNCHANGED <<goVars, snapVars, jsVars, jsOut, extVars>>

\* the earlier runQuery loop: query.runQuery returns, i++
ClientRunQueryOld(g) ==
    /\ qpc[g] = "runQuery"
    /\ IF qParams[g] = {}
       THEN /\ qpc' = [qpc EXCEPT ![g] = "panic"]
            /\ UNCHANGED <<thCh, qstats, qi>>
       ELSE /\ \E err \in {"nil", "error"} :
                  IF err # "nil"
                  THEN /\ qstats' = AddUint32(qstats, "Failures")
                       /\ UNCHANGED thCh
                  ELSE /\ thCh' = thCh - 1
                       /\ qstats' = AddUint32(qstats, "Success")
            /\ qi' = [qi EXCEPT ![g] = qi[g] + 1]
            /\ qpc' = [qpc EXCEPT ![g] =
                          IF qi[g] + 1 < ActualQueries THEN "query" ELSE "params"]
    /\ UNCHANGED <<goVars, qParams, snapVars, jsVars, jsOut, extVars>>

InitClient ==
    /\ InitLoader(<<>>)
    /\ bqIn = NoTweet
    /\ bqOut = NoPlan
    /\ InitIdle

NextClient ==
    \E g \in Queries :
        \/ ThDo(g)
        \/ GetParams(g)
        \/ ClientRunQuery(g)

SpecClient == InitClient /\ [][NextClient]_vars

NextClientOld ==
    \E g \in Queries :
        \/ ThDo(g)
        \/ GetParamsOld(g)
        \/ ClientRunQueryOld(g)

SpecClientOld == InitClient /\ [][NextClientOld]_vars

\* ------------------------------------------------------------------------
\* The JS loader: addTweetData and upsertData, one call per tweet, the calls
\* interleaving at their awaits
\* ------------------------------------------------------------------------
JsErrors == {"refused", "finished", "retry", "noconnect", "removed", "other"}

JsCount(field) == jsCounters' = [jsCounters EXCEPT ![field] = @ + 1]

\* upsertData up to await txn.doRequest(req), on a new txn
JsSubmit(r) ==
    /\ Len(jsErrs[r]) < MaxJsAttempts
    /\ jsPc' = [jsPc EXCEPT ![r] = "doRequest"]

\* addTweetData up to the first await of upsertData
AddTweetData(r) ==
    /\ jsProc = "running"
    /\ jsPc[r] = "new"
    /\ \A q \in JsRecords : q < r => jsPc[q] # "new"
    /\ JsCount("totalTweets")
    /\ jsRetry' = TRUE
    /\ JsSubmit(r)
    /\ UNCHANGED <<goVars, snapVars, clientVars, jsErrs, jsConnFailed, jsProc, jsOut, extVars>>

\* doRequest resolves: the try block runs to its end, then finally
DoRequestOk(r) ==
    /\ jsProc = "running"
    /\ jsPc[r] = "doRequest"
    /\ jsErrs' = [jsErrs EXCEPT ![r] = Append(@, "nil")]
    /\ JsCount("commits")
    /\ jsConnFailed' = FALSE
    /\ jsPc' = [jsPc EXCEPT ![r] = "done"]
    /\ UNCHANGED <<goVars, snapVars, clientVars, jsRetry, jsProc, jsOut, extVars>>

\* doRequest rejects with e: the catch block up to its await, or to its end
DoRequestThrows(r, e) ==
    /\ jsProc = "running"
    /\ jsPc[r] = "doRequest"
    /\ jsErrs' = [jsErrs EXCEPT ![r] = Append(@, e)]
    /\ CASE e = "refused" ->
              /\ jsPc' = [jsPc EXCEPT ![r] = "wait5000"]
              /\ UNCHANGED <<jsCounters, jsConnFailed, jsProc>>
         [] e = "finished" ->
              /\ JsCount("failures")
              /\ jsPc' = [jsPc EXCEPT ![r] = "done"]
              /\ UNCHANGED <<jsConnFailed, jsProc>>
         [] e = "retry" /\ jsRetry ->
              /\ JsCount("retries")
              /\ jsPc' = [jsPc EXCEPT ![r] = "wait200"]
              /\ UNCHANGED <<jsConnFailed, jsProc>>
         [] e = "noconnect" ->
              /\ jsConnFailed' = TRUE
              /\ jsPc' = [jsPc EXCEPT ![r] = "wait500"]
              /\ UNCHANGED <<jsCounters, jsProc>>
         [] e = "removed" ->
              /\ jsProc' = "exit 1"
              /\ jsPc' = [jsPc EXCEPT ![r] = "exited"]
              /\ UNCHANGED <<jsCounters, jsConnFailed>>
         [] OTHER ->
              /\ JsCount("errors")
              /\ jsPc' = [jsPc EXCEPT ![r] = "done"]
              /\ UNCHANGED <<jsConnFailed, jsProc>>
    /\ UNCHANGED <<goVars, snapVars, clientVars, jsRetry, jsOut, extVars>>

\* await wait(5000) is over: finally
WaitRefused(r) ==
    /\ jsProc = "running"
    /\ jsPc[r] = "wait5000"
    /\ jsPc' = [jsPc EXCEPT ![r] = "done"]
    /\ UNCHANGED <<goVars, snapVars, clientVars, jsRetry, jsErrs, jsCounters,
                   jsConnFailed, jsProc, jsOut, extVars>>

\* await wait(200) is over: retry = false, upsertData again
WaitRetry(r) ==
    /\ jsProc = "running"
    /\ jsPc[r] = "wait200"
    /\ jsRetry' = FALSE
    /\ JsSubmit(r)
    /\ UNCHANGED <<goVars, snapVars, clientVars, jsErrs, jsCounters,
                   jsConnFailed, jsProc, jsOut, extVars>>

\* await wait(500) is over: upsertData again
WaitConnect(r) ==
    /\ jsProc = "running"
    /\ jsPc[r] = "wait500"
    /\ JsSubmit(r)
    /\ UNCHANGED <<goVars, snapVars, clientVars, jsRetry, jsErrs, jsCounters,
                   jsConnFailed, jsProc, jsOut, extVars>>

NextJS ==
    \E r \in JsRecords :
        \/ AddTweetData(r)
        \/ DoRequestOk(r)
        \/ \E e \in JsErrors : DoRequestThrows(r, e)
        \/ WaitRefused(r)
        \/ WaitRetry(r)
        \/ WaitConnect(r)

SpecJS == InitClient /\ [][NextJS]_vars

\* ------------------------------------------------------------------------
\* updateFilteredTweet of the loaders that look users up before the mutation
\* ------------------------------------------------------------------------
\* the uid queryUser finds for user_id id, "" when it finds none
storedUID(stored, id) == IF id \in stored THEN "0x" \o id ELSE ""

\* the map users and the slice userMentions after the first n mentions of
\* the loop that queries; m.UID is the UID filterTweet left in the mention
RECURSIVE uftLoop(_, _, _)
uftLoop(ft, stored, n) ==
    IF n = 0
    THEN [users |-> [id \in {ft.Author.UserID} |-> storedUID(stored, ft.Author.UserID)],
          userMentions |-> <<>>]
    ELSE LET prev == uftLoop(ft, stored, n - 1)
             m == ft.Mention[n]
             ok == m.UserID \in DOMAIN prev.users
         IN IF ok /\ prev.users[m.UserID] # ""
            THEN [prev EXCEPT !.userMentions =
                     Append(@, [UserID |-> "", UID |-> prev.users[m.UserID]])]
            ELSE IF ok THEN prev
            ELSE [prev EXCEPT !.users =
                     [id \in DOMAIN prev.users \cup {m.UserID} |->
                         IF id = m.UserID THEN m.UID ELSE prev.users[id]]]

\* updateFilteredTweet with queryUser
updateFilteredTweet(in) ==
    IF in.dup THEN [err |-> "errShouldNotReach", ft |-> in.ft]
    ELSE [err |-> "nil",
          ft |-> [in.ft EXCEPT
                    !.Author.UID = storedUID(in.stored, in.ft.Author.UserID),
                    !.Mention = uftLoop(in.ft, in.stored, Len(in.ft.Mention)).userMentions]]

\* the same loop without queries: users holds the UID of each user visited
RECURSIVE uftLoop7(_, _)
uftLoop7(ft, n) ==
    IF n = 0
    THEN [users |-> [id \in {ft.Author.UserID} |-> ft.Author.UID],
          userMentions |-> <<>>]
    ELSE LET prev == uftLoop7(ft, n - 1)
             m == ft.Mention[n]
         IN IF m.UserID \in DOMAIN prev.users /\ prev.users[m.UserID] # ""
            THEN [users |-> [prev.users EXCEPT ![m.UserID] = m.UID],
                  userMentions |-> Append(prev.userMentions,
                                          [UserID |-> "", UID |-> prev.users[m.UserID]])]
            ELSE prev

\* updateFilteredTweet without queries
updateFilteredTweet7(in) ==
    [err |-> "nil",
     ft |-> [in.ft EXCEPT !.Mention = uftLoop7(in.ft, Len(in.ft.Mention)).userMentions,
                          !.UID = "v"]]

\* the tweets of filterTweet, over every set of stored users
UFTInputs ==
    {[ft |-> t, stored |-> st, dup |-> d] :
        t \in BQInputs, st \in SUBSET UserIds, d \in BOOLEAN}

InitUFT ==
    /\ InitLoader(<<>>)
    /\ bqIn = NoTweet
    /\ bqOut = NoPlan
    /\ ftIn = NotATweet
    /\ ftOut = NoResult
    /\ oldStats = progStats
    /\ line = NoLine
    /\ InitSide
    /\ uftIn \in UFTInputs
    /\ uftOut = NoResult
    /\ uftOut7 = NoResult
    /\ InitDownload(<<>>)
    /\ InitRounds

UpdateFilteredTweet ==
    /\ uftOut = NoResult
    /\ uftOut' = updateFilteredTweet(uftIn)
    /\ UNCHANGED <<goVars, snapVars, clientVars, jsVars, jsOut, uftIn, uftOut7, dlVars, rVars>>

UpdateFilteredTweet7 ==
    /\ uftOut7 = NoResult
    /\ uftOut7' = updateFilteredTweet7(uftIn)
    /\ UNCHANGED <<goVars, snapVars, clientVars, jsVars, jsOut, uftIn, uftOut, dlVars, rVars>>

NextUFT == UpdateFilteredTweet \/ UpdateFilteredTweet7

SpecUFT == InitUFT /\ [][NextUFT]_vars

\* ------------------------------------------------------------------------
\* Download mode: startWriters, runWriter and the writer's files
\* ------------------------------------------------------------------------
dlRest == <<workerVars, users, posts, log, bqVars, procVars, ftVars, repVars,
            snapVars, clientVars, jsVars, jsOut, uftVars, rVars>>

DlAlive == dlMain \notin {"returned", "exit 1"}

ClosedFile == [open |-> FALSE, recs |-> <<>>]

\* what ioutil.ReadDir can find: files NNNNNN.tweets.gz of earlier runs
StartDirs == {[i \in S |-> ClosedFile] : S \in SUBSET (1..MaxStartFid)}

Max(S) == IF S = {} THEN 0 ELSE CHOOSE x \in S : \A y \in S : y <= x

\* a scan that leaves fid at 0
ReadDirFromZero ==
    /\ dlMain = "ReadDir"
    /\ fid' = 0
    /\ dlMain' = "AddRunning"
    /\ UNCHANGED <<dlRest, input, nextIdx, stats, wPc, wF, files, wIds, dlSig, dlRep,
                   clWaiting, clClosed>>

\* fid = the largest id parseFid finds in the directory
ReadDir ==
    /\ dlMain = "ReadDir"
    /\ fid' = Max(DOMAIN files)
    /\ dlMain' = "AddRunning"
    /\ UNCHANGED <<dlRest, input, nextIdx, stats, wPc, wF, files, wIds, dlSig, dlRep,
                   clWaiting, clClosed>>

\* cl.AddRunning(numWriters), go runWriter for each, up to exit.Wait()
StartWriters ==
    /\ dlMain = "AddRunning"
    /\ clWaiting' = clWaiting + NumWriters
    /\ wPc' = [w \in Writers |-> "newWriter"]
    /\ dlMain' = "exit.Wait"
    /\ UNCHANGED <<dlRest, input, nextIdx, stats, wF, files, fid, wIds, dlSig, dlRep,
                   clClosed>>

\* w.newFiles() on the directory fs: the next id, a file opened with O_EXCL
NewFiles(w, fs) ==
    LET id == fid + 1
    IN /\ fid' = id
       /\ wIds' = Append(wIds, id)
       /\ IF id \in DOMAIN fs
          THEN /\ dlMain' = checkFatal("Failed to open file")
               /\ files' = fs
               /\ UNCHANGED wF
          ELSE /\ files' = [i \in DOMAIN fs \cup {id} |->
                               IF i = id THEN [open |-> TRUE, recs |-> <<>>] ELSE fs[i]]
               /\ wF' = [wF EXCEPT ![w] = id]
               /\ UNCHANGED dlMain

\* w := newWriter()
NewWriter(w) ==
    /\ DlAlive
    /\ wPc[w] = "newWriter"
    /\ NewFiles(w, files)
    /\ wPc' = [wPc EXCEPT ![w] = "select"]
    /\ UNCHANGED <<dlRest, input, nextIdx, stats, dlSig, dlRep, clWaiting, clClosed>>

\* case jsn, more := <-tweets with more = true; the record is the id_str of
\* the tweet marshalled, "" for the zero anaconda.Tweet; full: the file has
\* grown beyond maxSz
WriterReceive(w) ==
    /\ DlAlive
    /\ wPc[w] = "select"
    /\ nextIdx <= Len(input)
    /\ nextIdx' = nextIdx + 1
    /\ LET msg == input[nextIdx]
           counted == IF msg.kind = "tweet" THEN stats ELSE AddUint32(stats, "ErrorsJSON")
           tweet == IF msg.kind = "tweet" THEN msg.IdStr ELSE ""
           written == [files EXCEPT ![wF[w]].recs = Append(@, tweet)]
       IN /\ stats' = AddUint32(counted, "Tweets")
          /\ \E full \in BOOLEAN :
                IF full
                THEN NewFiles(w, [written EXCEPT ![wF[w]].open = FALSE])
                ELSE /\ files' = written
                     /\ UNCHANGED <<fid, wIds, wF, dlMain>>
    /\ UNCHANGED <<dlRest, input, wPc, dlSig, dlRep, clWaiting, clClosed>>

\* case <-c.HasBeenClosed(), or more = false: return, the deferred w.Finish()
WriterFinish(w) ==
    /\ DlAlive
    /\ wPc[w] = "select"
    /\ clClosed \/ (closed /\ nextIdx > Len(input))
    /\ files' = [files EXCEPT ![wF[w]].open = FALSE]
    /\ wPc' = [wPc EXCEPT ![w] = "c.Done"]
    /\ UNCHANGED <<dlRest, input, nextIdx, stats, wF, fid, wIds, dlMain, dlSig, dlRep,
                   clWaiting, clClosed>>

\* the deferred c.Done()
WriterDone(w) ==
    /\ DlAlive
    /\ wPc[w] = "c.Done"
    /\ clWaiting' = clWaiting - 1
    /\ wPc' = [wPc EXCEPT ![w] = "exited"]
    /\ UNCHANGED <<dlRest, input, nextIdx, stats, wF, files, fid, wIds, dlMain, dlSig,
                   dlRep, clClosed>>

\* <-sdCh: cl.Signal() of cl.SignalAndWait()
SignalCaught ==
    /\ DlAlive
    /\ dlSig = "waiting"
    /\ clClosed' = TRUE
    /\ dlSig' = "cl.Wait"
    /\ UNCHANGED <<dlRest, input, nextIdx, stats, wPc, wF, files, fid, wIds, dlMain,
                   dlRep, clWaiting>>

\* cl.Wait() of cl.SignalAndWait() returns, the deferred exit.Done()
SignalWaitOver ==
    /\ DlAlive
    /\ dlSig = "cl.Wait"
    /\ clWaiting = 0
    /\ dlSig' = "done"
    /\ UNCHANGED <<dlRest, input, nextIdx, stats, wPc, wF, files, fid, wIds, dlMain,
                   dlRep, clWaiting, clClosed>>

\* reportWriteStats: case <-c.HasBeenClosed(), the deferred c.Done()
ReporterExit ==
    /\ DlAlive
    /\ dlRep = "running"
    /\ clClosed
    /\ dlRep' = "exited"
    /\ clWaiting' = clWaiting - 1
    /\ UNCHANGED <<dlRest, input, nextIdx, stats, wPc, wF, files, fid, wIds, dlMain,
                   dlSig, clClosed>>

\* exit.Wait() returns, startWriters and main return
WritersReturn ==
    /\ dlMain = "exit.Wait"
    /\ dlSig = "done"
    /\ dlMain' = "returned"
    /\ UNCHANGED <<dlRest, input, nextIdx, stats, wPc, wF, files, fid, wIds, dlSig,
                   dlRep, clWaiting, clClosed>>

InitDl ==
    /\ \E in \in StreamsOf({TweetA, NotATweet}) : InitLoader(in)
    /\ bqIn = NoTweet
    /\ bqOut = NoPlan
    /\ ftIn = NotATweet
    /\ ftOut = NoResult
    /\ oldStats = progStats
    /\ line = NoLine
    /\ InitSide
    /\ InitUftIdle
    /\ \E dir \in StartDirs : InitDownload(dir)
    /\ InitRounds

NextDl ==
    \/ ReadDir
    \/ StartWriters
    \/ \E w \in Writers :
          \/ NewWriter(w)
          \/ WriterReceive(w)
          \/ WriterFinish(w)
          \/ WriterDone(w)
    \/ SignalCaught
    \/ SignalWaitOver
    \/ ReporterExit
    \/ WritersReturn
    \/ CloseChan

SpecDl == InitDl /\ [][NextDl]_vars

\* the writers on a stream of posts that no signal interrupts
InitFid ==
    /\ \E in \in StreamsOf({TweetA}) : InitLoader(in)
    /\ bqIn = NoTweet
    /\ bqOut = NoPlan
    /\ ftIn = NotATweet
    /\ ftOut = NoResult
    /\ oldStats = progStats
    /\ line = NoLine
    /\ InitSide
    /\ InitUftIdle
    /\ \E dir \in StartDirs : InitDownload(dir)
    /\ InitRounds

NextFid ==
    \/ ReadDir
    \/ StartWriters
    \/ \E w \in Writers : NewWriter(w) \/ WriterReceive(w)

SpecFid == InitFid /\ [][NextFid]_vars

\* ------------------------------------------------------------------------
\* The loader that restarts its stream every opts.Timeout: the loop of main
\* and the inserters of each round; inserter <<r, i>> is the i-th goroutine
\* started in round r, on the closer and the stream of that round
\* ------------------------------------------------------------------------
rOther == <<goVars, snapVars, clientVars, jsVars, jsOut, uftVars, dlVars>>

RoundAlive == rMain.pc # checkFatal("error in getting trends")

LiveOf(r) == {g \in DOMAIN rLive : g[1] = r}

\* getTrends, checkFatal, a new stream and c := y.NewCloser(0)
GetTrends ==
    /\ rMain.pc = "getTrends"
    /\ rnd <= MaxRounds
    /\ \E err \in {"nil", "error"} :
          rMain' = IF err = "nil" THEN [pc |-> "spawn", i |-> 0]
                   ELSE [pc |-> checkFatal("error in getting trends"), i |-> 0]
    /\ UNCHANGED <<rOther, rnd, rLive, rClosed>>

\* c.AddRunning(1); go runInserter(alphas, c, stream.C); after the last
\* one, time.Sleep(opts.Timeout)
SpawnInserter ==
    /\ rMain.pc = "spawn"
    /\ LET g == <<rnd, rMain.i + 1>>
       IN rLive' = [x \in DOMAIN rLive \cup {g} |-> IF x = g THEN "select" ELSE rLive[x]]
    /\ rMain' = IF rMain.i + 1 < NumWorkers THEN [rMain EXCEPT !.i = @ + 1]
                ELSE [pc |-> "sleep", i |-> 0]
    /\ UNCHANGED <<rOther, rnd, rClosed>>

\* the sleep is over: stream.Stop(), c.Signal() of c.SignalAndWait()
StopStream ==
    /\ rMain.pc = "sleep"
    /\ rClosed' = rClosed \cup {rnd}
    /\ rMain' = [pc |-> "c.Wait", i |-> 0]
    /\ UNCHANGED <<rOther, rnd, rLive>>

\* a loop that goes on to the next round after c.Signal()
NextRoundNoWait ==
    /\ rMain.pc = "c.Wait"
    /\ rnd' = rnd + 1
    /\ rMain' = [pc |-> "getTrends", i |-> 0]
    /\ UNCHANGED <<rOther, rLive, rClosed>>

\* c.Wait() of c.SignalAndWait() returns: every inserter of the round has
\* run its deferred c.Done(); the next round
NextRound ==
    /\ rMain.pc = "c.Wait"
    /\ LiveOf(rnd) = {}
    /\ rnd' = rnd + 1
    /\ rMain' = [pc |-> "getTrends", i |-> 0]
    /\ UNCHANGED <<rOther, rLive, rClosed>>

\* case jsn, more := <-tweets with more = true
InserterReceive(g) ==
    /\ RoundAlive
    /\ rLive[g] = "select"
    /\ rLive' = [rLive EXCEPT ![g] = "busy"]
    /\ UNCHANGED <<rOther, rnd, rMain, rClosed>>

\* the message is dealt with, the inserter is back at the select
InserterProcessed(g) ==
    /\ RoundAlive
    /\ rLive[g] \in {"busy", "retried", "sleep"}
    /\ rLive' = [rLive EXCEPT ![g] = "select"]
    /\ UNCHANGED <<rOther, rnd, rMain, rClosed>>

\* txn.Mutate returns "connection refused": time.Sleep(5 * time.Second)
InserterRefused(g) ==
    /\ RoundAlive
    /\ rLive[g] \in {"busy", "retried"}
    /\ rLive' = [rLive EXCEPT ![g] = "sleep"]
    /\ UNCHANGED <<rOther, rnd, rMain, rClosed>>

\* txn.Mutate returns "Please retry" while retry is set: retry = false,
\* goto RETRY; only one retry attempt is made
InserterRetry(g) ==
    /\ RoundAlive
    /\ rLive[g] = "busy"
    /\ rLive' = [rLive EXCEPT ![g] = "retried"]
    /\ UNCHANGED <<rOther, rnd, rMain, rClosed>>

\* case <-c.HasBeenClosed(), or more = false: return, the deferred c.Done()
InserterExit(g) ==
    /\ RoundAlive
    /\ rLive[g] = "select"
    /\ g[1] \in rClosed
    /\ rLive' = [x \in DOMAIN rLive \ {g} |-> rLive[x]]
    /\ UNCHANGED <<rOther, rnd, rMain, rClosed>>

NextRounds ==
    \/ GetTrends
    \/ SpawnInserter
    \/ StopStream
    \/ NextRound
    \/ \E g \in DOMAIN rLive :
          \/ InserterReceive(g)
          \/ InserterProcessed(g)
          \/ InserterRefused(g)
          \/ InserterRetry(g)
          \/ InserterExit(g)

SpecRounds == InitClient /\ [][NextRounds]_vars

\* ------------------------------------------------------------------------
\* Properties
\* ------------------------------------------------------------------------
Range(q) == {q[i] : i \in DOMAIN q}
Done(k) == log[k].counted # "pending"
AllExited == \A w \in Workers : pc[w] = "exited"
IsPost(m) == m.kind = "tweet" /\ m.CreatedOk

\* txn.Do calls made so far for the message worker w is processing
Attempts(w) == Len(errs[w]) + (IF pc[w] = "inflight" THEN 1 ELSE 0)

\* the message was sent with CommitNow and the backend never failed on it
Healthy(k) ==
    /\ log[k].commitNow
    /\ "refused" \notin Range(log[k].errs)
    /\ "other" \notin Range(log[k].errs)

\* C1: at most one committed User node exists per user_id, in every
\* reachable state and under every interleaving of the workers.
C1_OneUserPerUserId ==
    \A n1, n2 \in DOMAIN users :
        users[n1].user_id = users[n2].user_id => n1 = n2

\* two requests that both found the same user missing were in flight
\* together; one has committed the user and the other is still pending
C1_Witness ==
    \E w \in Workers :
        /\ pc[w] = "inflight"
        /\ conflicted[w]
        /\ bind[w]["u"] = {}
        /\ \E n \in DOMAIN users : users[n].user_id = plan[w].tweet.Author.UserID

\* C2: txn.Do is called at most twice per message, and a second time only
\* when the first call returned "Please retry".
C2_AtMostTwoSubmissions ==
    /\ \A w \in Workers :
          /\ Attempts(w) <= 2
          /\ Attempts(w) = 2 => errs[w][1] = "retry"
    /\ \A k \in DOMAIN log :
          /\ Len(log[k].errs) <= 2
          /\ Len(log[k].errs) = 2 => log[k].errs[1] = "retry"

C2_Witness == \E k \in DOMAIN log : Done(k) /\ Len(log[k].errs) = 2

\* C3: no request is made on a txn that is already finished, so the
\* "already been committed or discarded" error never occurs.
C3_NoTransactionReuse ==
    /\ \A w \in Workers : ~(pc[w] = "RETRY" /\ txnFinished[w])
    /\ \A k \in DOMAIN log : "finished" \notin Range(log[k].errs)

\* C4: a message whose first request was answered "Please retry" and whose
\* resubmission the backend did not reject ends as one retry and one commit.
C4_RetryThenCommitted ==
    \A k \in DOMAIN log :
        (/\ Done(k)
         /\ Len(log[k].errs) >= 1
         /\ log[k].errs[1] = "retry"
         /\ \A i \in 2..Len(log[k].errs) :
               log[k].errs[i] \notin {"retry", "refused", "other"})
        => /\ Len(log[k].errs) = 2
           /\ log[k].counted = "Commits"

\* posts with pairwise different ids that all have the same author
SameAuthor(in) ==
    /\ Len(in) >= 2
    /\ \A i \in DOMAIN in : IsPost(in[i]) /\ in[i].UserId = in[1].UserId
    /\ \A i, j \in DOMAIN in : i # j => in[i].IdStr # in[j].IdStr

\* C5: N posts of one new author on an empty backend: when all workers have
\* exited there is exactly one User node of the author and every post is
\* committed with its author edge to that node.
C5_AuthorConvergence ==
    (AllExited /\ SameAuthor(input) /\ \A k \in DOMAIN log : Healthy(k))
    => \E u \in DOMAIN users :
          /\ users[u].user_id = input[1].UserId
          /\ \A n \in DOMAIN users : users[n].user_id = input[1].UserId => n = u
          /\ \A k \in DOMAIN input :
                \E p \in DOMAIN posts :
                    posts[p].id_str = input[k].IdStr /\ posts[p].author = {u}

\* C6: post A (author U1, mentions U2) and post B (author U2, mentions U1)
\* on an empty backend end as two User nodes and two Tweet nodes with
\* A.author = U1, A.mention = {U2}, B.author = U2, B.mention = {U1}.
C6_CrossMention ==
    (/\ AllExited
     /\ input \in {<<TweetA, TweetB>>, <<TweetB, TweetA>>}
     /\ \A k \in DOMAIN log : Healthy(k))
    => /\ Cardinality(DOMAIN users) = 2
       /\ Cardinality(DOMAIN posts) = 2
       /\ \E u1, u2 \in DOMAIN users, a, b \in DOMAIN posts :
             /\ users[u1].user_id = "U1"
             /\ users[u2].user_id = "U2"
             /\ posts[a] = [id_str |-> "P1", author |-> {u1}, mention |-> {u2}]
             /\ posts[b] = [id_str |-> "P2", author |-> {u2}, mention |-> {u1}]

\* C7: at most one committed Tweet node exists per id_str, in every
\* reachable state.
C7_OnePostPerIdStr ==
    \A n1, n2 \in DOMAIN posts :
        posts[n1].id_str = posts[n2].id_str => n1 = n2

\* the same post was handed to two workers at once: one copy is committed
\* and the other was answered with a conflict
C7_Witness ==
    \E k1, k2 \in DOMAIN log :
        /\ k1 # k2
        /\ input[k1].IdStr = input[k2].IdStr
        /\ log[k1].counted = "Commits"
        /\ Done(k2) /\ log[k2].errs # <<>> /\ log[k2].errs[1] = "retry"
        /\ \E n \in DOMAIN posts : posts[n].id_str = input[k1].IdStr

\* C8: when the id_str of a message already resolves to a Tweet node, the
\* request changes no node and the message is not counted as a commit.
C8_DuplicateSkipped ==
    [][\A w \in Workers :
          (/\ pc[w] = "inflight"
           /\ pc'[w] # "inflight"
           /\ "t" \in DOMAIN bind[w]
           /\ bind[w]["t"] # {})
          => /\ users' = users
             /\ posts' = posts
             /\ stats'.Commits = stats.Commits]_vars

\* the placeholders of the occurrences of the users of a tweet, author first
Occurrences(tweet) ==
    <<tweet.Author>> \o tweet.Mention

\* C9: buildQuery gives all occurrences of one user_id the same placeholder,
\* different user_ids different placeholders, and emits exactly one
\* sub-query per distinct user_id, which declares that placeholder.
C9_OnePlaceholderPerUser ==
    bqOut # NoPlan =>
        LET occ == Occurrences(bqOut.tweet)
            q == bqOut.query
        IN /\ \A i, j \in DOMAIN occ :
                 (occ[i].UserID = occ[j].UserID) <=> (occ[i].UID = occ[j].UID)
           /\ \A i \in DOMAIN occ :
                 /\ occ[i].UID # ""
                 /\ Cardinality({j \in DOMAIN q :
                        q[j].pred = "user_id" /\ q[j].val = occ[i].UserID}) = 1
                 /\ \E j \in DOMAIN q :
                        q[j] = VarQuery(occ[i].UID, "user_id", occ[i].UserID)
           /\ \A j \in DOMAIN q :
                 q[j].pred = "user_id" =>
                     \E i \in DOMAIN occ : occ[i].UserID = q[j].val

\* a tweet that mentions the same user, who is not its author, three times
C9_Witness ==
    /\ bqOut # NoPlan
    /\ Len(bqIn.Mention) = 3
    /\ \A i \in 1..3 : bqIn.Mention[i].UserID = bqIn.Mention[1].UserID
    /\ bqIn.Mention[1].UserID # bqIn.Author.UserID
    /\ \A i \in 1..3 : bqOut.tweet.Mention[i].UID = "m1"

\* C10: after "connection refused" the worker makes no further request for
\* the message, the message is not handed out again, and the worker always
\* gets back to the select that takes the next message.
C10_RefusedThenNext ==
    /\ [](\A w \in Workers :
            "refused" \in Range(errs[w]) => errs[w] = <<"refused">> /\ pc[w] = "sleep")
    /\ [](\A k \in DOMAIN log :
            "refused" \in Range(log[k].errs) => log[k].errs = <<"refused">>)
    /\ [][nextIdx' >= nextIdx /\ \A w \in Workers : cur'[w] \in {cur[w], 0, nextIdx}]_vars
    /\ \A w \in Workers : (pc[w] = "sleep") ~> (pc[w] = "idle")

\* a refused message is behind the worker, which has taken the next one
C10_Witness ==
    \E k \in DOMAIN log, w \in Workers :
        /\ log[k].errs = <<"refused">>
        /\ log[k].counted = "none"
        /\ cur[w] > k

\* the four counters that tell how the processing of a post ended
OutcomeCounters == {"Commits", "LeakedCommits", "Failures", "ErrorsDgraph"}

\* C11: every message that got past filterTweet has incremented exactly one
\* of the commit, leaked-commit, failure and backend-error counters when its
\* processing is over, and one whose request ended on "connection refused"
\* has incremented the failure counter.
C11_OneOutcomeCounter ==
    /\ \A k \in DOMAIN log :
           (Done(k) /\ IsPost(input[k])) =>
               /\ log[k].counted \in OutcomeCounters
               /\ "refused" \in Range(log[k].errs) => log[k].counted = "Failures"
    /\ stats.Commits + stats.LeakedCommits + stats.Failures + stats.ErrorsDgraph
           = Cardinality({k \in DOMAIN log : Done(k) /\ IsPost(input[k])})

\* the errors txn.Do has returned for message k so far
ErrsOf(k) ==
    IF Done(k) THEN log[k].errs
    ELSE LET ws == {w \in Workers : cur[w] = k}
         IN IF ws = {} THEN <<>> ELSE errs[CHOOSE w \in ws : TRUE]

Rejected == [errs |-> <<>>, counted |-> "ErrorsJSON", commitNow |-> FALSE]
CountedAs(c) == {k \in DOMAIN log : IsPost(input[k]) /\ log[k].counted = c}
BadCreated(m) == m.kind = "tweet" /\ ~m.CreatedOk

\* C14: a post whose CreatedAt does not parse is rejected by filterTweet as
\* soon as it is received: no request is ever made for it, ErrorsJSON counts
\* it once, and Commits, LeakedCommits, Retries, Failures and ErrorsDgraph
\* count posts that parsed only.
C14_UnparsableTimeRejected ==
    /\ \A k \in DOMAIN input :
           BadCreated(input[k]) =>
               /\ filterTweet(input[k]).err = "parse"
               /\ log[k] = IF k < nextIdx THEN Rejected ELSE Pending
               /\ \A w \in Workers :
                      cur[w] = k => /\ pc[w] \in {"idle", "exited"}
                                    /\ plan[w] = NoPlan
                                    /\ bind[w] = NoBind
                                    /\ errs[w] = <<>>
    /\ stats.ErrorsJSON = Cardinality({k \in 1..(nextIdx - 1) : ~IsPost(input[k])})
    /\ \A c \in OutcomeCounters : stats[c] = Cardinality(CountedAs(c))
    /\ stats.Retries = Cardinality({k \in DOMAIN input :
                            IsPost(input[k]) /\ "retry" \in Range(ErrsOf(k))})

\* a post with a bad CreatedAt has been rejected and another post committed
C14_Witness ==
    \E k, j \in DOMAIN input :
        /\ BadCreated(input[k])
        /\ log[k] = Rejected
        /\ stats.ErrorsJSON = 1
        /\ log[j].counted = "Commits"

\* C15: a message that is not a tweet is skipped: no request is made for it,
\* ErrorsJSON counts it exactly once, and the worker that received it is
\* back at the select for the next message.
C15_NonPostSkipped ==
    /\ \A k \in DOMAIN input :
           input[k].kind # "tweet" =>
               /\ filterTweet(input[k]).err = "errNotATweet"
               /\ log[k] = IF k < nextIdx THEN Rejected ELSE Pending
               /\ \A w \in Workers :
                      cur[w] = k => /\ pc[w] \in {"idle", "exited"}
                                    /\ ~txnFinished[w]
                                    /\ bind[w] = NoBind
    /\ stats.Tweets = nextIdx - 1
    /\ stats.ErrorsJSON = Cardinality({k \in 1..(nextIdx - 1) : ~IsPost(input[k])})

\* the worker that skipped the first message has a request in flight for
\* the second, no other worker having received anything
C15_Witness ==
    /\ Len(input) = 2
    /\ input[1].kind # "tweet"
    /\ log[1] = Rejected
    /\ \E w \in Workers :
           /\ cur[w] = 2
           /\ pc[w] = "inflight"
           /\ \A v \in Workers \ {w} : cur[v] = 0

\* C18: the HashTags of the record filterTweet returns hold no empty string
\* and no value twice.
C18_HashtagsDistinct ==
    ftOut.err = "nil" =>
        LET h == ftOut.ft.HashTags
        IN /\ \A i \in DOMAIN h : h[i] # ""
           /\ \A i, j \in DOMAIN h : i # j => h[i] # h[j]

\* C19: the URLs of the record filterTweet returns are the Expanded_url of
\* the post's URL entities, one per entity and in the order of the entities.
C19_UrlsAreExpanded ==
    ftOut.err = "nil" =>
        ftOut.ft.URLs = [i \in 1..Len(ftIn.Urls) |-> ftIn.Urls[i].Expanded_url]

C16_AlterAtMostThrice ==
    /\ retryCount <= 3
    /\ procPc \in {"alter", "sleep", "running", "stopping", "returned"} => retryCount <= 2
    /\ procPc = "sleep" => retryCount >= 1
    /\ procPc = CreatingIndexes <=> retryCount = 3
    /\ procPc \in {"alter", "sleep", CreatingIndexes} =>
           /\ \A w \in Workers : pc[w] = "unstarted"
           /\ nextIdx = 1
           /\ stats.Tweets = 0

\* the third Alter has failed and the process is gone, no message received
C16_Witness ==
    /\ procPc = CreatingIndexes
    /\ retryCount = 3
    /\ nextIdx = 1
    /\ \A w \in Workers : pc[w] = "unstarted"

\* C17: the process exits on an error only before any message has been
\* handed to a worker.
C17_NoFatalAfterFirstRecord ==
    procPc \in ReaderErrors \cup {CreatingIndexes} => nextIdx = 1

\* C20: a STATS line with a commit_rate above zero is printed only when
\* Commits has grown since the line before.
C20_RateMeansCommits ==
    [][(oldStats' # oldStats /\ line'.commit_rate > 0) =>
           stats.Commits > oldStats.Commits]_vars

\* the goroutines of the query client that have a query running
Running == {g \in Queries : qpc[g] \in {"getParams", "runQuery"}}

\* C21: the parameter queries and actual queries running at one time are
\* never more than NumQueryAtATime, and each holds one element of the
\* throttle's channel.
C21_ThrottleLimit ==
    /\ Cardinality(Running) <= NumQueryAtATime
    /\ thCh = Cardinality(Running)

\* the limit is reached, with a parameter query and an actual query
\* running and a goroutine waiting in th.Do()
C21_Witness ==
    /\ Cardinality(Running) = NumQueryAtATime
    /\ \E g, h \in Running : qpc[g] = "getParams" /\ qpc[h] = "runQuery"
    /\ \E g \in Queries : qpc[g] \in {"params", "query"}

\* doRequest calls made so far for tweet r of the JS loader
JsAttempts(r) == Len(jsErrs[r]) + (IF jsPc[r] = "doRequest" THEN 1 ELSE 0)

\* the tweet met nothing but conflicts on the way to its last answer
OnlyConflicts(r) ==
    \A i \in DOMAIN jsErrs[r] : jsErrs[r][i] \in {"retry", "nil"}

\* C22: in the JS loader a tweet whose request meets a conflict is
\* submitted again after its first conflict and is submitted at most
\* twice, whatever happens to the other tweets in flight.
C22_RetryPerRecord ==
    \A r \in JsRecords :
        OnlyConflicts(r) =>
            /\ JsAttempts(r) <= 2
            /\ (jsPc[r] = "done" /\ jsErrs[r][1] = "retry") => Len(jsErrs[r]) = 2

\* C29: in the JS loader no tweet has doRequest called more than twice.
C29_AtMostTwoAttempts ==
    \A r \in JsRecords : JsAttempts(r) <= 2

Nodes == DOMAIN users \cup DOMAIN posts

\* C24: a post whose request without CommitNow succeeded is counted in
\* LeakedCommits and not in Commits, and nothing of it is committed: no node
\* was created for it, and a Tweet node with its id_str is there only when
\* another message with that id_str was committed.
C24_DeferredNeverCommitted ==
    /\ \A k \in DOMAIN log :
          /\ (log[k].errs # <<>> /\ log[k].errs[Len(log[k].errs)] = "nil" /\ ~log[k].commitNow)
                => log[k].counted = "LeakedCommits"
          /\ log[k].counted = "Commits" => log[k].commitNow
          /\ log[k].counted = "LeakedCommits" =>
                /\ ~log[k].commitNow
                /\ \A n \in Nodes : n[1] # k
                /\ \A p \in DOMAIN posts :
                      posts[p].id_str = input[k].IdStr =>
                          \E j \in DOMAIN log :
                              /\ j # k
                              /\ log[j].counted = "Commits"
                              /\ input[j].IdStr = input[k].IdStr
    /\ stats.Commits = Cardinality({k \in DOMAIN log : log[k].counted = "Commits"})
    /\ stats.LeakedCommits = Cardinality({k \in DOMAIN log : log[k].counted = "LeakedCommits"})

\* one post was left uncommitted and another one is committed
C24_Witness ==
    /\ \E k \in DOMAIN log : log[k].counted = "LeakedCommits"
    /\ \E k \in DOMAIN log : log[k].counted = "Commits"
    /\ posts # << >>

Busy == {w \in Workers : pc[w] \in {"RETRY", "inflight", "sleep"}}
InFlight == {w \in Workers : bind[w] # NoBind}

\* C25: a worker holds at most one message and has at most one request open
\* at the backend, so the open requests are never more than the workers; no
\* message is held by two workers; a request is open only after the message
\* went through filterTweet and buildQuery, in that order, and it carries
\* that plan.
C25_OneRecordOneRequest ==
    /\ Cardinality(InFlight) <= NumWorkers
    /\ \A w \in Workers :
          /\ w \in InFlight => pc[w] = "inflight"
          /\ w \in Busy =>
                /\ cur[w] \in 1..(nextIdx - 1)
                /\ ~Done(cur[w])
                /\ filterTweet(input[cur[w]]).err = "nil"
                /\ plan[w] = buildQuery(filterTweet(input[cur[w]]).ft)
                /\ pc[w] = "inflight" => DOMAIN bind[w] = QueryVars(plan[w].query)
          /\ w \notin Busy => cur[w] = 0 /\ plan[w] = NoPlan
          /\ \A v \in Workers : (v # w /\ v \in Busy /\ w \in Busy) => cur[v] # cur[w]

\* every worker has a request open, each for its own message
C25_Witness ==
    /\ InFlight = Workers
    /\ \A w, v \in Workers : w # v => cur[w] # cur[v]

Holders(k) == {w \in Workers : cur[w] = k}

\* C26: a message sent on the channel is received by exactly one worker: it
\* is held by one worker until its processing is over and by none after
\* that, and Tweets counts the messages received; when main returns after
\* the reader has closed the channel, every message of the files has been
\* received and processed and Tweets is their number.
C26_EachRecordOnce ==
    /\ stats.Tweets = nextIdx - 1
    /\ \A k \in DOMAIN input :
          /\ k >= nextIdx => Holders(k) = {} /\ ~Done(k)
          /\ k < nextIdx => IF Done(k) THEN Holders(k) = {}
                                       ELSE Cardinality(Holders(k)) = 1
    /\ procPc = "returned" =>
          /\ nextIdx = Len(input) + 1
          /\ stats.Tweets = Len(input)
          /\ \A k \in DOMAIN input : Done(k)

\* main has returned after a stream of more than one message
C26_Witness ==
    /\ procPc = "returned"
    /\ Len(input) > 1
    /\ stats.Tweets = Len(input)

\* C27: Commits + LeakedCommits + Failures + ErrorsDgraph <= Tweets and
\* Retries <= Tweets in every reachable state: a message received counts in
\* at most one of the four outcome counters and in at most one retry.
C27_CountersBoundedByTweets ==
    /\ stats.Commits + stats.LeakedCommits + stats.Failures + stats.ErrorsDgraph
          <= stats.Tweets
    /\ stats.Retries <= stats.Tweets
    /\ \A w \in Workers :
          Cardinality({i \in DOMAIN errs[w] : Classify(errs[w][i], TRUE) = "retry"}) <= 1

\* every message received was retried and has its outcome counted
C27_Witness ==
    /\ stats.Tweets > 1
    /\ stats.Retries > 0
    /\ stats.Commits + stats.LeakedCommits + stats.Failures + stats.ErrorsDgraph
          = stats.Tweets

\* the sub-queries of q that declare variable v
Declaring(q, v) == {j \in DOMAIN q : q[j].var = v}

\* uid(v) stands for the node with pred = val
DeclaredOnce(q, v, pred, val) ==
    /\ v # ""
    /\ Cardinality(Declaring(q, v)) = 1
    /\ \A j \in Declaring(q, v) : q[j] = VarQuery(v, pred, val)

\* C28: every uid(x) of the mutation is declared by exactly one sub-query
\* of the request, and that sub-query looks up the id of the node the
\* placeholder stands for: id_str for the tweet, user_id for the author and
\* for each mention; this holds for the plan of the Go loader and for the
\* tweetObj of filterTweet with the query of buildQuery in the JS loader.
C28_PlaceholdersDeclared ==
    /\ bqOut # NoPlan =>
          LET t == bqOut.tweet
              q == bqOut.query
          IN /\ DeclaredOnce(q, t.UID, "id_str", t.IDStr)
             /\ DeclaredOnce(q, t.Author.UID, "user_id", t.Author.UserID)
             /\ \A i \in DOMAIN t.Mention :
                   DeclaredOnce(q, t.Mention[i].UID, "user_id", t.Mention[i].UserID)
    /\ jsOut # NoJsOut =>
          LET t == jsOut.tweet
              q == jsOut.query
          IN /\ DeclaredOnce(q, t.uid, "id_str", t.id_str)
             /\ DeclaredOnce(q, t.author.uid, "user_id", t.author.user_id)
             /\ \A i \in DOMAIN t.mention :
                   DeclaredOnce(q, t.mention[i].uid, "user_id", t.mention[i].user_id)

\* both loaders have planned a tweet that mentions two users who are not
\* its author, one of them twice
C28_Witness ==
    /\ bqOut # NoPlan
    /\ jsOut # NoJsOut
    /\ Len(bqIn.Mention) = 3
    /\ bqIn.Mention[1].UserID = bqIn.Mention[3].UserID
    /\ Cardinality({bqIn.Author.UserID, bqIn.Mention[1].UserID, bqIn.Mention[2].UserID}) = 3

\* C30: the counters printed in one STATS line of reportInsertStats are a
\* consistent snapshot: commits + leaked + failures + dgraph_errs <= tweets.
C30_ReportIsSnapshot ==
    "leaked" \in DOMAIN line =>
        line.commits + line.leaked + line.failures + line.dgraph_errs <= line.tweets

Mentioned(ft) == {ft.Mention[i].UserID : i \in DOMAIN ft.Mention}

\* C31: updateFilteredTweet drops no mention: when it returns without
\* error, the mention list it leaves in the tweet has an entry for every
\* user the tweet mentions, in the variant that queries the users and in the
\* variant that does not.
C31_NoMentionDropped ==
    /\ (uftOut # NoResult /\ uftOut.err = "nil") =>
          Len(uftOut.ft.Mention) >= Cardinality(Mentioned(uftIn.ft))
    /\ uftOut7 # NoResult =>
          Len(uftOut7.ft.Mention) >= Cardinality(Mentioned(uftIn.ft))

\* C32: no two calls of newFiles obtain the same id, and every id obtained
\* is greater than every id that was in the output directory at startup, so
\* no file is opened twice and O_EXCL never fails.
C32_FileIdsUnique ==
    /\ \A i, j \in DOMAIN wIds : i # j => wIds[i] # wIds[j]
    /\ \A i \in DOMAIN wIds :
          \A k \in DOMAIN files : (k \notin Range(wIds)) => k < wIds[i]
    /\ dlMain # checkFatal("Failed to open file")
    /\ \A w, v \in Writers : (w # v /\ wF[w] # 0) => wF[w] # wF[v]

\* both writers hold a file, one of them after a rotation, in a directory
\* that held files at startup
C32_Witness ==
    /\ Len(wIds) > NumWriters
    /\ \A w \in Writers : wF[w] # 0
    /\ DOMAIN files \ Range(wIds) # {}

\* C33: when startWriters returns after a signal, the reporter and every
\* writer have exited and every file is flushed and closed; a writer is
\* counted as exited only after its file is closed.
C33_WritersStopBeforeReturn ==
    /\ dlMain = "returned" =>
          /\ dlRep = "exited"
          /\ \A w \in Writers : wPc[w] = "exited"
          /\ \A k \in DOMAIN files : ~files[k].open
    /\ \A w \in Writers : wPc[w] = "exited" => ~files[wF[w]].open

PostsReceived == {k \in 1..(nextIdx - 1) : input[k].kind = "tweet"}

RECURSIVE SumLen(_, _)
SumLen(f, S) ==
    IF S = {} THEN 0
    ELSE LET k == CHOOSE x \in S : TRUE IN Len(f[k].recs) + SumLen(f, S \ {k})

\* C34: a message that is not a post is counted in ErrorsJSON and skipped:
\* Tweets counts the posts received only, and the files hold one record per
\* post received.
C34_NonPostNotWritten ==
    /\ stats.Tweets = Cardinality(PostsReceived)
    /\ SumLen(files, DOMAIN files) = Cardinality(PostsReceived)
    /\ stats.ErrorsJSON = (nextIdx - 1) - Cardinality(PostsReceived)

\* C36: every slot of the throttle taken with th.Do() is given back with
\* th.Done() on every path of the runQuery loop: the slots held are those of
\* the calls of getParams and runQuery in progress.
C36_SlotsReleased ==
    thCh = Cardinality(Running)

\* C37: the actual query of a goroutine runs only while q.hashtags is not
\* empty, whatever the parameter queries answered before: the selection of a
\* random hashtag never panics.
C37_ParamsNonEmpty ==
    \A g \in Queries :
        /\ qpc[g] # "panic"
        /\ qpc[g] \in {"query", "runQuery"} => qParams[g] # {}

\* an actual query runs while another goroutine's list was emptied by a
\* parameter query that found no hashtag
C37_Witness ==
    \E g, h \in Queries :
        /\ qpc[g] = "runQuery"
        /\ qpc[h] = "params"
        /\ qParams[h] = {}
        /\ qstats.Failures > 0

\* C35: all inserters of a round have exited before those of the next round
\* are started: every inserter alive belongs to the round main is in, and
\* they are never more than NumClients.
C35_OneRoundOfWorkers ==
    /\ Cardinality(DOMAIN rLive) <= NumWorkers
    /\ \A g \in DOMAIN rLive : g[1] = rnd

\* the inserters of a later round are all started
C35_Witness ==
    /\ rnd > 1
    /\ Cardinality(LiveOf(rnd)) = NumWorkers
    /\ \E g \in DOMAIN rLive : rLive[g] = "busy"

====
